---- MODULE Spec2Model ----
(***************************************************************************)
(* A model of the q-gui lighting console: the console state aggregate     *)
(* (src/src/ui.rs ConsoleState), the executor engine (src/src/dmx_types.rs *)
(* Executor), the mixing tick (src/src/dmx_output.rs), the command         *)
(* interpreter (src/src/console.rs) and the OSC router (src/src/osc.rs).   *)
(*                                                                         *)
(* Conventions.                                                            *)
(*  - A Rust Vec is a TLA+ sequence; Rust index i is position i + 1.       *)
(*  - An f32 level (fader, dimmer, volume, output level) x is the integer  *)
(*    1000 * x ("milli").  The inputs are multiples of 1/4, so every       *)
(*    product the code forms is exact both in f32 and in the model.        *)
(*  - Option<u32> None is NoCue; Option<String> None is NoError.           *)
(*  - A Rust panic (index out of bounds) sets panicked; the process is     *)
(*    gone afterwards and no operation is enabled.                         *)
(***************************************************************************)
EXTENDS Integers, Sequences, FiniteSets, TLC

----------------------------------------------------------------------------
(* Program constants *)

DMX_CHANNELS == 512

NumExecutors == 10

U8Max == 255

Milli == 1000

NoCue == -1

NoError == "None"

----------------------------------------------------------------------------
(* Bounds of the model *)

MaxCues == 3

MaxTime == 1

MaxHistory == 2

MaxCueId == 4

\* The ended queue holds at most this many events
MaxEnded == 2

\* The track list holds at most this many tracks
MaxTracks == 2

\* The longest cue list the nudge commands are tried on
MaxNudgeCues == 4

----------------------------------------------------------------------------
(* Small helpers *)

Min(a, b) == IF a < b THEN a ELSE b

SatSub1(n) == IF n > 0 THEN n - 1 ELSE 0

Zeros == [i \in 1..DMX_CHANNELS |-> 0]

\* Remove position p (1-based) of a sequence: Vec::remove(p - 1)
RemoveAt(s, p) == [i \in 1..(Len(s) - 1) |-> IF i < p THEN s[i] ELSE s[i + 1]]

\* Vec::insert(p - 1, x) for 1 <= p <= Len(s) + 1
InsertAt(s, p, x) ==
  [i \in 1..(Len(s) + 1) |-> IF i < p THEN s[i] ELSE IF i = p THEN x ELSE s[i - 1]]

\* Vec::swap(p - 1, q - 1)
SwapAt(s, p, q) ==
  [i \in 1..Len(s) |-> IF i = p THEN s[q] ELSE IF i = q THEN s[p] ELSE s[i]]

\* Position of the first element satisfying a test, 0 when there is none
RECURSIVE FirstIdFrom(_, _, _)
FirstIdFrom(cues, id, p) ==
  IF p > Len(cues) THEN 0
  ELSE IF cues[p].id = id THEN p
  ELSE FirstIdFrom(cues, id, p + 1)

\* iter().enumerate().filter_map(|(idx, c)| c.id == id).next(); 0 is None
FindCue(cues, id) == FirstIdFrom(cues, id, 1)

----------------------------------------------------------------------------
(* Cue and Executor (dmx_types.rs) *)

\* Cue::new(id): fade_time 0.0, delay 0.0, 512 zero levels
NewCue(id) == [id |-> id, fade_time |-> 0, delay |-> 0, levels |-> Zeros]

\* The declaration of Executor.last_direction is not in the sources; the
\* other fields all start at their default, and so does this Option.
DefaultLastDirection == "None"

\* Executor::new(id)
NewExecutor(id) ==
  [id |-> id,
   current_cue |-> NoCue,
   current_cue_index |-> 0,
   cue_list |-> << >>,
   fader_level |-> 0,
   stored_channels |-> Zeros,
   target_level |-> 0,
   current_output_level |-> 0,
   fade_start_time |-> 0,
   is_fading |-> FALSE,
   last_fader_level |-> 0,
   last_direction |-> DefaultLastDirection]

\* Advance that leaves the cached channels as they were
AdvanceNoSnapshot(ex, idx, t) ==
  [ex EXCEPT !.current_cue_index = idx,
             !.current_cue = ex.cue_list[idx + 1].id,
             !.target_level = ex.fader_level,
             !.is_fading = TRUE,
             !.fade_start_time = t]

\* Body of go()/go_back() once the new index is known
Advance(ex, idx, t) ==
  [ex EXCEPT !.current_cue_index = idx,
             !.current_cue = ex.cue_list[idx + 1].id,
             !.stored_channels = ex.cue_list[idx + 1].levels,
             !.target_level = ex.fader_level,
             !.is_fading = TRUE,
             !.fade_start_time = t]

\* go() that starts the fade before it looks at the cue list
GoExecFadeFirst(ex, t) ==
  IF Len(ex.cue_list) = 0
  THEN [ex EXCEPT !.target_level = ex.fader_level, !.is_fading = TRUE,
                  !.fade_start_time = t]
  ELSE Advance(ex, (ex.current_cue_index + 1) % Len(ex.cue_list), t)

\* Executor::go at clock t
GoExec(ex, t) ==
  IF Len(ex.cue_list) = 0 THEN ex
  ELSE Advance(ex, (ex.current_cue_index + 1) % Len(ex.cue_list), t)

\* Executor::go_back at clock t
GoBackExec(ex, t) ==
  IF Len(ex.cue_list) = 0 THEN ex
  ELSE Advance(ex, (Len(ex.cue_list) + ex.current_cue_index - 1) % Len(ex.cue_list), t)

\* update_fade whose flash-up fades toward the fader position
UpdateFadeTargetFader(ex, t) ==
  LET flash == ex.last_fader_level = 0 /\ ex.fader_level # 0
      e1 == IF flash
            THEN [ex EXCEPT !.target_level = ex.fader_level, !.is_fading = TRUE,
                            !.fade_start_time = t]
            ELSE ex
      e2 == [e1 EXCEPT !.last_fader_level = e1.fader_level]
  IN IF ~e2.is_fading \/ Len(e2.cue_list) = 0
     THEN [e2 EXCEPT !.current_output_level = e2.fader_level]
     ELSE LET fade_time == e2.cue_list[e2.current_cue_index + 1].fade_time
              elapsed == t - e2.fade_start_time
              progress == IF fade_time <= 0 THEN Milli
                          ELSE Min((elapsed * Milli) \div fade_time, Milli)
          IN IF progress >= Milli
             THEN [e2 EXCEPT !.is_fading = FALSE,
                             !.current_output_level = e2.fader_level]
             ELSE [e2 EXCEPT !.current_output_level =
                                (progress * e2.fader_level) \div Milli]

\* update_fade whose idle branch leaves the output level where it was
UpdateFadeIdleHolds(ex, t) ==
  LET flash == ex.last_fader_level = 0 /\ ex.fader_level # 0
      e1 == IF flash
            THEN [ex EXCEPT !.target_level = Milli, !.is_fading = TRUE,
                            !.fade_start_time = t]
            ELSE ex
      e2 == [e1 EXCEPT !.last_fader_level = e1.fader_level]
  IN IF ~e2.is_fading \/ Len(e2.cue_list) = 0
     THEN e2
     ELSE LET fade_time == e2.cue_list[e2.current_cue_index + 1].fade_time
              elapsed == t - e2.fade_start_time
              progress == IF fade_time <= 0 THEN Milli
                          ELSE Min((elapsed * Milli) \div fade_time, Milli)
          IN IF progress >= Milli
             THEN [e2 EXCEPT !.is_fading = FALSE,
                             !.current_output_level = e2.fader_level]
             ELSE [e2 EXCEPT !.current_output_level =
                                (progress * e2.fader_level) \div Milli]

\* Executor::update_fade at clock t
UpdateFade(ex, t) ==
  LET flash == ex.last_fader_level = 0 /\ ex.fader_level # 0
      e1 == IF flash
            THEN [ex EXCEPT !.target_level = Milli, !.is_fading = TRUE,
                            !.fade_start_time = t]
            ELSE ex
      e2 == [e1 EXCEPT !.last_fader_level = e1.fader_level]
  IN IF ~e2.is_fading \/ Len(e2.cue_list) = 0
     THEN [e2 EXCEPT !.current_output_level = e2.fader_level]
     ELSE LET fade_time == e2.cue_list[e2.current_cue_index + 1].fade_time
          IN IF fade_time <= 0
             THEN [e2 EXCEPT !.current_output_level = e2.fader_level,
                             !.is_fading = FALSE]
             ELSE LET elapsed == t - e2.fade_start_time
                      progress == Min((elapsed * Milli) \div fade_time, Milli)
                  IN IF progress >= Milli
                     THEN [e2 EXCEPT !.is_fading = FALSE,
                                     !.current_output_level = e2.fader_level]
                     ELSE [e2 EXCEPT !.current_output_level =
                                        (progress * e2.fader_level) \div Milli]

----------------------------------------------------------------------------
(* Mixing tick (dmx_output.rs) *)

\* Rust's `x as u8` for the float num / den (den > 0): truncates toward
\* zero and saturates at 0 and 255
AsU8(num, den) ==
  IF num <= 0 THEN 0
  ELSE IF num \div den > U8Max THEN U8Max
  ELSE num \div den

\* ((level as f32 * current_output_level) * master_dimmer) as u8
ScaleLevel(level, out, md) == AsU8(level * out * md, Milli * Milli)

\* (prev + (curr - prev) * progress) * master_dimmer as u8
Interpolate(prev, curr, progress, md) ==
  AsU8((prev * Milli + (curr - prev) * progress) * md, Milli * Milli)

\* Does the executor (after update_fade) write the frame?  lines 9-10
ExecWrites(ex) ==
  /\ ex.fader_level > 0
  /\ ex.current_cue_index < Len(ex.cue_list)

\* The 512 values the executor writes, lines 12-60
ExecFrame(ex, md) ==
  LET n == Len(ex.cue_list)
      cur == ex.cue_list[ex.current_cue_index + 1].levels
  IN IF ex.is_fading /\ ex.last_direction # "None"
     THEN LET prev_idx == IF ex.last_direction = "Positive"
                          THEN (ex.current_cue_index + n - 1) % n
                          ELSE (ex.current_cue_index + 1) % n
              prev == ex.cue_list[prev_idx + 1].levels
          IN [i \in 1..DMX_CHANNELS |->
                Interpolate(prev[i], cur[i], ex.current_output_level, md)]
     ELSE [i \in 1..DMX_CHANNELS |->
                ScaleLevel(cur[i], ex.current_output_level, md)]

\* state.executors.iter_mut().for_each(...): the frame after executors p..
RECURSIVE MixExecutors(_, _, _, _)
MixExecutors(execs, md, p, frame) ==
  IF p > Len(execs) THEN frame
  ELSE MixExecutors(execs, md, p + 1,
         IF ExecWrites(execs[p]) THEN ExecFrame(execs[p], md) ELSE frame)

\* state.buffer.iter().for_each(...): entries p.. written over the frame
RECURSIVE ApplyBuffer(_, _, _)
ApplyBuffer(buf, p, frame) ==
  IF p > Len(buf) THEN frame
  ELSE LET idx == SatSub1(buf[p].chan)
       IN ApplyBuffer(buf, p + 1,
            IF idx < DMX_CHANNELS
            THEN [frame EXCEPT ![idx + 1] = buf[p].dmx]
            ELSE frame)

\* The frame of one tick, from executors that have run update_fade
MixFrame(execs, buf, md) == ApplyBuffer(buf, 1, MixExecutors(execs, md, 1, Zeros))

----------------------------------------------------------------------------
(* Command lines (console.rs).  A line is a sequence of whitespace-        *)
(* separated tokens: a word, a number, or a letter glued to a number.      *)

Word(w) == [k |-> "word", w |-> w, n |-> 0]

Num(n) == [k |-> "num", w |-> "", n |-> n]

Tag(w, n) == [k |-> "tag", w |-> w, n |-> n]

\* str::to_lowercase on the words the inputs use
LowerWord(w) ==
  CASE w = "CHAN" -> "chan"
    [] w = "Chan" -> "chan"
    [] w = "AT" -> "at"
    [] w = "At" -> "at"
    [] w = "Fix" -> "fix"
    [] w = "Color" -> "color"
    [] w = "R" -> "r"
    [] w = "G" -> "g"
    [] w = "B" -> "b"
    [] w = "W" -> "w"
    [] w = "Blackout" -> "blackout"
    [] w = "B/O" -> "b/o"
    [] w = "BO" -> "bo"
    [] w = "Clear" -> "clear"
    [] w = "CLR" -> "clr"
    [] w = "Move" -> "move"
    [] w = "Exec" -> "exec"
    [] w = "Cue" -> "cue"
    [] w = "To" -> "to"
    [] w = "Up" -> "up"
    [] w = "Down" -> "down"
    [] OTHER -> w

\* A run of whitespace at an end of the line
Space == [k |-> "space", w |-> " ", n |-> 0]

\* str::trim: the line without the whitespace at its two ends
RECURSIVE TrimStart(_)
TrimStart(line) ==
  IF Len(line) > 0 /\ line[1].k = "space" THEN TrimStart(Tail(line)) ELSE line

RECURSIVE TrimEnd(_)
TrimEnd(line) ==
  IF Len(line) > 0 /\ line[Len(line)].k = "space"
  THEN TrimEnd(SubSeq(line, 1, Len(line) - 1))
  ELSE line

\* to_lowercase() of the line as typed, whitespace kept
LoweredUntrimmed(line) ==
  [i \in 1..Len(line) |-> [line[i] EXCEPT !.w = LowerWord(line[i].w)]]

\* value.trim().to_lowercase()
Lowered(line) ==
  LET s == TrimEnd(TrimStart(line))
  IN [i \in 1..Len(s) |-> [s[i] EXCEPT !.w = LowerWord(s[i].w)]]

\* IsU8 reading the number into a wider type
IsU8Wide(tok) == tok.k = "num" /\ tok.n >= 0

\* scan_fmt's `{}` read as u8 / u32 / usize.  The numbers of the model are
\* far below 2^32, so u32 and usize only reject a sign.
IsU8(tok) == tok.k = "num" /\ tok.n >= 0 /\ tok.n <= U8Max

IsU32(tok) == tok.k = "num" /\ tok.n >= 0

IsUsize(tok) == tok.k = "num" /\ tok.n >= 0

IsWord(tok, w) == tok.k = "word" /\ tok.w = w

\* `r{}` read as u8
IsTagU8(tok, w) == tok.k = "tag" /\ tok.w = w /\ tok.n >= 0 /\ tok.n <= U8Max

\* A ConsoleCommand value; the fields a variant does not have are 0 / "".
Command(op) ==
  [op |-> op, ch |-> 0, value |-> 0, fixture_id |-> 0,
   r |-> 0, g |-> 0, b |-> 0, w |-> 0,
   exec_from |-> 0, cue_from |-> 0, exec_to |-> 0, cue_to |-> 0,
   direction |-> ""]

NoCommand == Command("None")

\* scan_fmt!(&s, "chan {} at {}", usize, u8): input left over after the
\* format is consumed is not looked at
MatchChan(s) ==
  /\ Len(s) >= 4
  /\ IsWord(s[1], "chan") /\ IsUsize(s[2]) /\ IsWord(s[3], "at") /\ IsU8(s[4])

MatchFixAt(s) ==
  /\ Len(s) >= 4
  /\ IsWord(s[1], "fix") /\ IsU32(s[2]) /\ IsWord(s[3], "at") /\ IsU8(s[4])

MatchFixColor(s) ==
  /\ Len(s) >= 7
  /\ IsWord(s[1], "fix") /\ IsU32(s[2]) /\ IsWord(s[3], "color")
  /\ IsTagU8(s[4], "r") /\ IsTagU8(s[5], "g")
  /\ IsTagU8(s[6], "b") /\ IsTagU8(s[7], "w")

MatchMovePrefix(s) ==
  /\ Len(s) >= 5
  /\ IsWord(s[1], "move") /\ IsWord(s[2], "exec") /\ IsU32(s[3])
  /\ IsWord(s[4], "cue") /\ IsU32(s[5])

MatchMoveTo(s) ==
  /\ MatchMovePrefix(s)
  /\ Len(s) >= 10
  /\ IsWord(s[6], "to") /\ IsWord(s[7], "exec") /\ IsU32(s[8])
  /\ IsWord(s[9], "cue") /\ IsU32(s[10])

MatchMoveDir(s, d) ==
  /\ MatchMovePrefix(s)
  /\ Len(s) >= 6
  /\ IsWord(s[6], d)

\* impl TryFrom<String> for ConsoleCommand; NoCommand is
\* Err(ConsoleError::UnknownCommand(value))
Parse(line) ==
  LET s == Lowered(line)
  IN IF s = <<Word("b/o")>> \/ s = <<Word("blackout")>> \/ s = <<Word("bo")>>
       THEN Command("Blackout")
     ELSE IF s = <<Word("clear")>> \/ s = <<Word("clr")>>
       THEN Command("Clear")
     ELSE IF MatchChan(s)
       THEN [Command("DimChannel") EXCEPT !.ch = s[2].n, !.value = s[4].n]
     ELSE IF MatchFixAt(s)
       THEN [Command("DimFixture") EXCEPT !.fixture_id = s[2].n, !.value = s[4].n]
     ELSE IF MatchFixColor(s)
       THEN [Command("SetFixtureColor") EXCEPT !.fixture_id = s[2].n,
               !.r = s[4].n, !.g = s[5].n, !.b = s[6].n, !.w = s[7].n]
     ELSE IF MatchMoveTo(s)
       THEN [Command("MoveExecCueToExecCue") EXCEPT !.exec_from = s[3].n,
               !.cue_from = s[5].n, !.exec_to = s[8].n, !.cue_to = s[10].n]
     ELSE IF MatchMoveDir(s, "up")
       THEN [Command("MoveExecCueDirection") EXCEPT !.exec_from = s[3].n,
               !.cue_from = s[5].n, !.direction = "Up"]
     ELSE IF MatchMoveDir(s, "down")
       THEN [Command("MoveExecCueDirection") EXCEPT !.exec_from = s[3].n,
               !.cue_from = s[5].n, !.direction = "Down"]
     ELSE NoCommand

----------------------------------------------------------------------------
(* Override buffer and fixtures *)

\* DMXBufferValue::new(chan, val)
BufferValue(chan, val) == [chan |-> chan, dmx |-> val]

RECURSIVE FirstChanFrom(_, _, _)
FirstChanFrom(buf, chan, p) ==
  IF p > Len(buf) THEN 0
  ELSE IF buf[p].chan = chan THEN p
  ELSE FirstChanFrom(buf, chan, p + 1)

\* SetBuffer without the lookup of an existing entry
SetBufferAlwaysPush(buf, chan, val) == Append(buf, [chan |-> chan, dmx |-> val])

\* if let Some(existing) = buffer.iter_mut().find(|v| v.chan == ch)
\*   { existing.dmx = value } else { buffer.push(DMXBufferValue::new(ch, value)) }
SetBuffer(buf, chan, val) ==
  LET p == FirstChanFrom(buf, chan, 1)
  IN IF p > 0 THEN [buf EXCEPT ![p].dmx = val]
     ELSE Append(buf, BufferValue(chan, val))

\* ChannelDef::new(channel_type, offset)
ChannelDef(type, offset) == [type |-> type, offset |-> offset]

\* FixtureTemplateLibrary::load_predefined_templates: the first three
\* templates (ids 1, 2, 3), each a sequence of modes
TemplateLibrary ==
  <<
    \* Generic Dimmer
    << <<ChannelDef("Intensity", 0)>> >>,
    \* Generic RGB Par
    << <<ChannelDef("Intensity", 0), ChannelDef("Red", 1),
         ChannelDef("Green", 2), ChannelDef("Blue", 3)>>,
       <<ChannelDef("Red", 0), ChannelDef("Green", 1), ChannelDef("Blue", 2)>> >>,
    \* Generic RGBW Par
    << <<ChannelDef("Intensity", 0), ChannelDef("Red", 1), ChannelDef("Green", 2),
         ChannelDef("Blue", 3), ChannelDef("White", 4)>>,
       <<ChannelDef("Red", 0), ChannelDef("Green", 1), ChannelDef("Blue", 2),
         ChannelDef("White", 3)>> >>
  >>

\* FixtureTemplateLibrary::get_template(id).is_some()
HasTemplate(id) == id \in 1..Len(TemplateLibrary)

\* template.get_mode(mode_index): the channel definitions, << >> when None
ModeChannels(template_id, mode_index) ==
  IF HasTemplate(template_id) /\ mode_index < Len(TemplateLibrary[template_id])
  THEN TemplateLibrary[template_id][mode_index + 1]
  ELSE << >>

\* Fixture::new(id, name, start_channel, template_id, mode_index)
NewFixture(id, start_channel, template_id, mode_index) ==
  [id |-> id, start_channel |-> start_channel, template_id |-> template_id,
   mode_index |-> mode_index, intensity |-> 0,
   color |-> [r |-> 0, g |-> 0, b |-> 0, w |-> 0]]

\* Color::has_color
HasColor(c) == c.r # 0 \/ c.g # 0 \/ c.b # 0 \/ c.w # 0

\* Fixture::get_fixture_as_buffer: the (channel type, channel number) pairs
FixtureAsBuffer(f) ==
  LET defs == ModeChannels(f.template_id, f.mode_index)
  IN [i \in 1..Len(defs) |->
        [type |-> defs[i].type, chan |-> f.start_channel + defs[i].offset]]

RECURSIVE FirstFixtureFrom(_, _, _)
FirstFixtureFrom(fs, id, p) ==
  IF p > Len(fs) THEN 0
  ELSE IF fs[p].id = id THEN p
  ELSE FirstFixtureFrom(fs, id, p + 1)

\* state.fixtures.iter_mut().find(|f| f.id == fixture_id); 0 is None
FindFixture(fs, id) == FirstFixtureFrom(fs, id, 1)

\* DimFixture: is the channel kept by the filter_map (lines 161-181)?
DimKeeps(type, has_color) ==
  \/ type = "Intensity"
  \/ ~has_color /\ type = "White"

\* DimFixture: channels_to_dim.iter().for_each(...) from entry p on
RECURSIVE DimChannels(_, _, _, _, _)
DimChannels(buf, values, has_color, value, p) ==
  IF p > Len(values) THEN buf
  ELSE DimChannels(
         IF DimKeeps(values[p].type, has_color)
         THEN SetBuffer(buf, values[p].chan, value) ELSE buf,
         values, has_color, value, p + 1)

\* DimFixture: the closure sets color.w when a White channel is kept
DimSetsWhite(values, has_color) ==
  ~has_color /\ \E p \in 1..Len(values) : values[p].type = "White"

\* SetFixtureColor: the value of a colour channel, -1 for the other types
ColorValue(type, cmd) ==
  CASE type = "Red" -> cmd.r
    [] type = "Green" -> cmd.g
    [] type = "Blue" -> cmd.b
    [] type = "White" -> cmd.w
    [] OTHER -> -1

\* SetFixtureColor: for (chan_type, buf) in &values {...} from entry p on
RECURSIVE ColorChannels(_, _, _, _)
ColorChannels(buf, values, cmd, p) ==
  IF p > Len(values) THEN buf
  ELSE ColorChannels(
         IF ColorValue(values[p].type, cmd) >= 0
         THEN SetBuffer(buf, values[p].chan, ColorValue(values[p].type, cmd))
         ELSE buf,
         values, cmd, p + 1)

----------------------------------------------------------------------------
(* Cue moves (console.rs, MoveExecCueToExecCue and MoveExecCueDirection) *)

\* for_each(|c| { if c.id == id { found_same = true } if found_same { c.id += 1 } })
Renumber(cues, id) ==
  LET p == FindCue(cues, id)
  IN IF p = 0 THEN cues
     ELSE [i \in 1..Len(cues) |->
             IF i >= p THEN [cues[i] EXCEPT !.id = cues[i].id + 1] ELSE cues[i]]

\* The outcome of a handler: the executors, or a panic
Done(execs) == [panic |-> FALSE, execs |-> execs]

Panic(execs) == [panic |-> TRUE, execs |-> execs]

\* Lines 286-317: both cues found and exec_from != exec_to.
\* xf, xt are positions of the executors, pf, pt positions of the cues.
MoveFound(execs, xf, xt, pf, pt) ==
  LET cue == execs[xf].cue_list[pf]
      e1 == [execs EXCEPT ![xf].cue_list = RemoveAt(@, pf)]
  IN IF pt > Len(e1[xt].cue_list) THEN Panic(execs)
     ELSE
       LET to_move == e1[xt].cue_list[pt]
           e2 == [e1 EXCEPT ![xt].cue_list = RemoveAt(@, pt)]
           e3 == [e2 EXCEPT ![xt].cue_list = Renumber(@, cue.id)]
           e4 == [e3 EXCEPT ![xf].cue_list = Renumber(@, to_move.id)]
       IN IF pf > Len(e4[xf].cue_list) + 1 THEN Panic(execs)
          ELSE
            LET e5 == [e4 EXCEPT ![xf].cue_list = InsertAt(@, pf, to_move)]
            IN IF pt > Len(e5[xt].cue_list) + 1 THEN Panic(execs)
               ELSE Done([e5 EXCEPT ![xt].cue_list = InsertAt(@, pt, cue)])

\* Lines 320-341: the destination cue id is not in the destination list
MoveNotFound(execs, xf, xt, pf, cue_to) ==
  LET cue == execs[xf].cue_list[pf]
      e1 == [execs EXCEPT ![xf].cue_list = RemoveAt(@, pf)]
      cue_size == Len(e1[xt].cue_list)
  IN IF cue_size > 0
     THEN LET e2 == [e1 EXCEPT ![xt].cue_list = Renumber(@, cue.id)]
          IN IF SatSub1(cue_to) > cue_size THEN Panic(execs)
             ELSE Done([e2 EXCEPT ![xt].cue_list =
                                    InsertAt(@, SatSub1(cue_to) + 1, cue)])
     ELSE Done([e1 EXCEPT ![xt].cue_list = Append(@, cue)])

\* Lines 256-343
MoveExecCueToExecCue(execs, cmd) ==
  LET xf == SatSub1(cmd.exec_from) + 1
      xt == SatSub1(cmd.exec_to) + 1
  IN IF xf > Len(execs) \/ xt > Len(execs) THEN Panic(execs)
     ELSE
       LET pf == FindCue(execs[xf].cue_list, cmd.cue_from)
           pt == FindCue(execs[xt].cue_list, cmd.cue_to)
       IN IF pf = 0 THEN Done(execs)
          ELSE IF pt > 0
            THEN IF cmd.exec_from = cmd.exec_to
                 THEN Done([execs EXCEPT ![xf].cue_list = SwapAt(@, pf, pt)])
                 ELSE MoveFound(execs, xf, xt, pf, pt)
          ELSE MoveNotFound(execs, xf, xt, pf, cmd.cue_to)

\* A nudge that stops at the ends of the list
NudgeTargetClamped(idx, cue_size, direction) ==
  IF direction = "Up" THEN Min(idx + 1, cue_size - 1)
  ELSE SatSub1(idx)

\* Lines 373-399; idx is the 0-based index of the cue
NudgeTarget(idx, cue_size, direction) ==
  IF direction = "Up" THEN (idx + 1) % cue_size
  ELSE (cue_size + idx - 1) % cue_size

MoveExecCueDirection(execs, cmd) ==
  LET x == SatSub1(cmd.exec_from) + 1
  IN IF x > Len(execs) THEN Panic(execs)
     ELSE
       LET cue_size == Len(execs[x].cue_list)
           p == FindCue(execs[x].cue_list, cmd.cue_from)
       IN IF p = 0 THEN Done(execs)
          ELSE Done([execs EXCEPT ![x].cue_list =
                       SwapAt(@, p, NudgeTarget(p - 1, cue_size, cmd.direction) + 1)])

----------------------------------------------------------------------------
(* The console state (ui.rs, ConsoleState) *)

VARIABLES
  command_error,    \* Option<String>: message of the last command
  command_history,  \* Vec<ConsoleCommand>
  channels,         \* Vec<u8>: the frame last handed to the transport
  buffer,           \* Vec<DMXBufferValue>
  executors,        \* Vec<Executor>
  fixtures,         \* Vec<Fixture>
  master_dimmer,    \* f32, milli
  master_volume,    \* f32, milli
  now,              \* SystemTime::now() in seconds
  panicked,         \* the process died in a panic
  last_op,          \* history variable: the operation of the last step
  audio_tracks,     \* Vec<AudioTrack>
  audio_index,      \* usize: the track GO plays next
  active_players,   \* AudioEngine.active_players: Vec<ActivePlayback>
  ended_tracks,     \* AudioEngine.ended_tracks: Vec<(u32, AudioAction)>
  started,          \* history variable: the track ids play() was called for in the last step
  returned,         \* history variable: what get_ended_tracks() returned in the last step
  dmx_serial,       \* Option<DMXSerial>.is_some(): the port was opened at construction
  dmx_connected,    \* bool: the interface answered the last health poll
  dmx_serial_error, \* String: text of the last failed poll
  polled,           \* history variable: the outcome of check_agent() in the last step
  transmitted,      \* history variable: the frame set_channels() was called with in the last step
  selected_tab      \* Tab: the tab whose function the main loop runs

audio_vars == <<audio_tracks, audio_index, active_players, ended_tracks, started, returned>>

console_vars == <<command_error, command_history, channels, buffer, executors, fixtures,
                  master_dimmer, master_volume, now, panicked>>

serial_vars == <<dmx_serial, dmx_connected, dmx_serial_error, polled, transmitted>>

vars == <<command_error, command_history, channels, buffer, executors, fixtures,
          master_dimmer, master_volume, now, panicked, last_op,
          audio_tracks, audio_index, active_players, ended_tracks, started, returned,
          dmx_serial, dmx_connected, dmx_serial_error, polled, transmitted,
          selected_tab>>

\* The console state as one value, as the handlers receive it (&mut ConsoleState)
Console ==
  [command_error |-> command_error, command_history |-> command_history,
   channels |-> channels, buffer |-> buffer, executors |-> executors,
   fixtures |-> fixtures, master_dimmer |-> master_dimmer,
   master_volume |-> master_volume, now |-> now, panicked |-> panicked]

\* A value of the history variable: the handler that ran, its executor
\* (position) and its command line.  The specifications that need it set it;
\* the handlers never read it.
Op(name, exec, line) == [name |-> name, exec |-> exec, line |-> line]

\* No health poll ran in the step
NoPoll == "NoPoll"

\* check_agent() returned Ok(())
PollOk == "Ok"

\* set_channels() was not called in the step
NotSent == << >>

\* impl Default for ConsoleState, all fields but the serial port handle
InitConsole ==
  /\ command_error = [kind |-> NoError, id |-> 0, line |-> << >>]
  /\ command_history = << >>
  /\ channels = Zeros
  /\ buffer = << >>
  /\ executors = [i \in 1..NumExecutors |-> NewExecutor(i - 1)]
  /\ fixtures = << >>
  /\ master_dimmer = Milli
  /\ master_volume = Milli
  /\ now = 0
  /\ panicked = FALSE
  /\ last_op = [name |-> "init", exec |-> 0, line |-> << >>]
  /\ audio_tracks = << >>
  /\ audio_index = 0
  /\ active_players = << >>
  /\ ended_tracks = << >>
  /\ started = << >>
  /\ returned = << >>
  /\ dmx_connected = FALSE
  /\ dmx_serial_error = ""
  /\ polled = NoPoll
  /\ transmitted = NotSent
  /\ selected_tab = "DmxConsole"

\* A console started with no interface on the port: DMXSerial::open(port)
\* failed and dmx_serial is None
Init == InitConsole /\ dmx_serial = FALSE

----------------------------------------------------------------------------
(* execute_console_command (console.rs 129-405) *)

\* Option<String> command_error
ErrNone == [kind |-> NoError, id |-> 0, line |-> << >>]

\* ConsoleError::UnknownCommand(value).to_string()
ErrUnknown(line) == [kind |-> "Unknown command", id |-> 0, line |-> line]

\* format!("Fixture {fixture_id} not found")
ErrFixture(id) == [kind |-> "Fixture not found", id |-> id, line |-> << >>]

\* DimFixture, lines 151-206
DimFixture(c, cmd) ==
  LET p == FindFixture(c.fixtures, cmd.fixture_id)
  IN IF p = 0
     THEN [c EXCEPT !.command_error = ErrFixture(cmd.fixture_id)]
     ELSE
       LET f == [c.fixtures[p] EXCEPT !.intensity = cmd.value]
           values == FixtureAsBuffer(f)
           has_color == HasColor(f.color)
           f2 == IF HasTemplate(f.template_id) /\ DimSetsWhite(values, has_color)
                 THEN [f EXCEPT !.color.w = cmd.value] ELSE f
           buf == IF HasTemplate(f.template_id)
                  THEN DimChannels(c.buffer, values, has_color, cmd.value, 1)
                  ELSE SetBuffer(c.buffer, f.start_channel, cmd.value)
       IN [c EXCEPT !.fixtures[p] = f2,
                    !.buffer = buf,
                    !.command_history = Append(@, cmd)]

\* SetFixtureColor, lines 207-255
SetFixtureColor(c, cmd) ==
  LET p == FindFixture(c.fixtures, cmd.fixture_id)
  IN IF p = 0
     THEN [c EXCEPT !.command_error = ErrFixture(cmd.fixture_id)]
     ELSE IF ~HasTemplate(c.fixtures[p].template_id) THEN c
     ELSE
       [c EXCEPT !.buffer = ColorChannels(@, FixtureAsBuffer(c.fixtures[p]), cmd, 1),
                 !.fixtures[p].color =
                    [r |-> cmd.r, g |-> cmd.g, b |-> cmd.b, w |-> cmd.w],
                 !.command_history = Append(@, cmd)]

\* The move arms, lines 256-399: the executors, or a panic
Moved(c, res) ==
  IF res.panic THEN [c EXCEPT !.panicked = TRUE]
  ELSE [c EXCEPT !.executors = res.execs]

\* execute_console_command with state.command_input = line
execute_console_command(c, line) ==
  LET cmd == Parse(line)
      c0 == [c EXCEPT !.command_error = ErrNone]
  IN CASE cmd.op = "Blackout" ->
            [c0 EXCEPT !.command_history = Append(@, cmd),
                       !.master_dimmer = IF @ # 0 THEN 0 ELSE Milli]
       [] cmd.op = "Clear" ->
            [c0 EXCEPT !.command_history = Append(@, cmd),
                       !.buffer = << >>]
       [] cmd.op = "DimChannel" ->
            [c0 EXCEPT !.buffer = SetBuffer(@, cmd.ch, cmd.value),
                       !.command_history = Append(@, cmd)]
       [] cmd.op = "DimFixture" -> DimFixture(c0, cmd)
       [] cmd.op = "SetFixtureColor" -> SetFixtureColor(c0, cmd)
       [] cmd.op = "MoveExecCueToExecCue" ->
            Moved(c0, MoveExecCueToExecCue(c0.executors, cmd))
       [] cmd.op = "MoveExecCueDirection" ->
            Moved(c0, MoveExecCueDirection(c0.executors, cmd))
       [] OTHER -> [c0 EXCEPT !.command_error = ErrUnknown(line)]

----------------------------------------------------------------------------
(* Presentation handlers that write the console state (ui.rs) *)

\* Clear button, lines 792-798 (the else branch resets the edit mode only)
ClearPressed(c) ==
  IF Len(c.buffer) > 0
  THEN [c EXCEPT !.command_history = Append(@, Command("Clear")),
                 !.buffer = << >>]
  ELSE c

\* open_dmx::check_valid_channel(chan).is_ok(), called at line 278
ValidChannel(chan) == chan >= 1 /\ chan <= DMX_CHANNELS

\* for val in &state.buffer { if valid { levels[val.chan] = val.dmx } },
\* lines 276-281: indexing a 512-element Vec at 512 panics
RECURSIVE StoreLevels(_, _, _)
StoreLevels(buf, p, levels) ==
  IF p > Len(buf) THEN [panic |-> FALSE, levels |-> levels]
  ELSE IF ~ValidChannel(buf[p].chan) THEN StoreLevels(buf, p + 1, levels)
  ELSE IF buf[p].chan >= DMX_CHANNELS THEN [panic |-> TRUE, levels |-> levels]
  ELSE StoreLevels(buf, p + 1, [levels EXCEPT ![buf[p].chan + 1] = buf[p].dmx])

\* GO button of executor x (position) in Store mode, lines 274-285
StorePressed(c, x) ==
  LET st == StoreLevels(c.buffer, 1, Zeros)
      new_cue == [NewCue(Len(c.executors[x].cue_list) + 1) EXCEPT !.levels = st.levels]
  IN IF st.panic THEN [c EXCEPT !.panicked = TRUE]
     ELSE [c EXCEPT !.executors[x].cue_list = Append(@, new_cue)]

\* GO button outside the edit modes, line 293: exec.go()
GoPressed(c, x) == [c EXCEPT !.executors[x] = GoExec(@, c.now)]

\* BACK button outside Delete mode, line 302: exec.go_back()
BackPressed(c, x) == [c EXCEPT !.executors[x] = GoBackExec(@, c.now)]

\* Fader slider, lines 244-249: enabled only when the executor has cues
FaderMoved(c, x, level) ==
  IF Len(c.executors[x].cue_list) > 0
  THEN [c EXCEPT !.executors[x].fader_level = level]
  ELSE c

\* Master slider, lines 606-609
MasterMoved(c, level) == [c EXCEPT !.master_dimmer = level]

\* "Yes, Delete All" of the confirm prompt, lines 860-866
DeleteAllPressed(c, x) ==
  [c EXCEPT !.executors[x].cue_list = << >>,
            !.executors[x].current_cue = NoCue,
            !.executors[x].current_cue_index = 0,
            !.executors[x].stored_channels = Zeros]

\* f.start_channel + f_num_channels - 1 of a stored fixture
FixtureEnd(f) == f.start_channel + Len(ModeChannels(f.template_id, f.mode_index)) - 1

\* "Add Fixture" button, lines 1190-1238, with a non-empty name
AddFixturePressed(c, start_ch, template_id, mode_index) ==
  LET num_channels == Len(ModeChannels(template_id, mode_index))
      end_ch == start_ch + num_channels - 1
      collision == \E p \in 1..Len(c.fixtures) :
                      start_ch <= FixtureEnd(c.fixtures[p])
                      /\ end_ch >= c.fixtures[p].start_channel
  IN IF ~collision /\ start_ch > 0 /\ start_ch <= DMX_CHANNELS /\ num_channels > 0
     THEN [c EXCEPT !.fixtures =
             Append(@, NewFixture(Len(@) + 1, start_ch, template_id, mode_index))]
     ELSE c

----------------------------------------------------------------------------
(* mix_executor_outputs (dmx_output.rs 3-78) *)

\* update_fade indexes cue_list[current_cue_index] once the executor is
\* fading and has cues (dmx_types.rs 963): an index past the list panics
UpdateFadePanics(ex) ==
  /\ ex.is_fading \/ (ex.last_fader_level = 0 /\ ex.fader_level # 0)
  /\ Len(ex.cue_list) > 0
  /\ ex.current_cue_index >= Len(ex.cue_list)

mix_executor_outputs(c) ==
  IF \E x \in 1..Len(c.executors) : UpdateFadePanics(c.executors[x])
  THEN [c EXCEPT !.panicked = TRUE]
  ELSE LET faded == [x \in 1..Len(c.executors) |-> UpdateFade(c.executors[x], c.now)]
       IN [c EXCEPT !.executors = faded,
                    !.channels = MixFrame(faded, c.buffer, c.master_dimmer)]

----------------------------------------------------------------------------
(* handle_osc (osc.rs 12-124) *)

\* An OSC argument: Float and Double carry milli, Int and Long the integer
OscArg(t, v) == [t |-> t, v |-> v]

\* An OSC message: the binding its address string equals (kind) and the
\* executor number in a per-executor address ("/Executor{n}/Dimmer")
OscMessage(kind, exec, args) == [kind |-> kind, exec |-> exec, args |-> args]

NoMessage == OscMessage("", 0, << >>)

\* Lines 20-36: one argument on the master-volume address
VolumeArg(mv, a) ==
  CASE a.t = "Float" /\ a.v >= 0 /\ a.v <= 1500 -> a.v
    [] a.t = "Double" /\ a.v >= 0 /\ a.v <= 150 * Milli -> a.v \div 100
    [] a.t = "Int" /\ a.v >= 0 /\ a.v <= 150 -> (a.v \div 100) * Milli
    [] a.t = "Long" /\ a.v >= 0 /\ a.v <= 1500 -> (a.v \div 1000) * Milli
    [] OTHER -> mv

\* DimmerArg with no range check on a Float argument
DimmerArgUnchecked(md, a) ==
  CASE a.t = "Float" -> a.v
    [] a.t = "Int" /\ a.v >= 0 /\ a.v <= 100 -> (a.v \div 100) * Milli
    [] a.t = "Double" /\ a.v >= 0 /\ a.v <= 100 * Milli -> a.v \div 100
    [] a.t = "Long" /\ a.v >= 0 /\ a.v <= 1000 -> (a.v \div 1000) * Milli
    [] OTHER -> md

\* Lines 46-62: one argument on the master-dimmer address
DimmerArg(md, a) ==
  CASE a.t = "Float" /\ a.v >= 0 /\ a.v <= 1000 -> a.v
    [] a.t = "Int" /\ a.v >= 0 /\ a.v <= 100 -> (a.v \div 100) * Milli
    [] a.t = "Double" /\ a.v >= 0 /\ a.v <= 100 * Milli -> a.v \div 100
    [] a.t = "Long" /\ a.v >= 0 /\ a.v <= 1000 -> (a.v \div 1000) * Milli
    [] OTHER -> md

\* FaderArg without the look at the cue list
FaderArgAnyList(ex, a) ==
  IF a.t = "Float" /\ a.v >= 0 /\ a.v <= 1000
  THEN [ex EXCEPT !.fader_level = a.v]
  ELSE ex

\* Lines 82-91: one argument on an executor-dimmer address
FaderArg(ex, a) ==
  IF a.t = "Float" /\ a.v >= 0 /\ a.v <= 1000 /\ Len(ex.cue_list) > 0
  THEN [ex EXCEPT !.fader_level = a.v]
  ELSE ex

\* osc_message.args.iter().for_each(...) on each of the three bindings
RECURSIVE VolumeArgs(_, _, _)
VolumeArgs(mv, args, p) ==
  IF p > Len(args) THEN mv ELSE VolumeArgs(VolumeArg(mv, args[p]), args, p + 1)

RECURSIVE DimmerArgs(_, _, _)
DimmerArgs(md, args, p) ==
  IF p > Len(args) THEN md ELSE DimmerArgs(DimmerArg(md, args[p]), args, p + 1)

RECURSIVE FaderArgs(_, _, _)
FaderArgs(ex, args, p) ==
  IF p > Len(args) THEN ex ELSE FaderArgs(FaderArg(ex, args[p]), args, p + 1)

\* executors.iter_mut().find(|exec| address == "/Executor{exec.id + 1}..."):
\* the position of the executor, 0 when no executor has that address
OscExecutor(execs, n) ==
  IF \E x \in 1..Len(execs) : execs[x].id + 1 = n
  THEN CHOOSE x \in 1..Len(execs) :
         /\ execs[x].id + 1 = n
         /\ \A y \in 1..(x - 1) : execs[y].id + 1 # n
  ELSE 0

handle_osc(c, msg) ==
  LET x == OscExecutor(c.executors, msg.exec)
  IN CASE msg.kind = "MasterVolume" ->
            [c EXCEPT !.master_volume = VolumeArgs(@, msg.args, 1)]
       [] msg.kind = "MasterDMX" ->
            [c EXCEPT !.master_dimmer = DimmerArgs(@, msg.args, 1)]
       [] msg.kind = "Dimmer" /\ x > 0 ->
            [c EXCEPT !.executors[x] = FaderArgs(@, msg.args, 1)]
       [] msg.kind = "Go" /\ x > 0 ->
            [c EXCEPT !.executors[x] = GoExec(@, c.now)]
       [] msg.kind = "GoBack" /\ x > 0 ->
            [c EXCEPT !.executors[x] = GoBackExec(@, c.now)]
       [] OTHER -> c

----------------------------------------------------------------------------
(* Steps.  AppState::update (main.rs 30-72) runs handle_osc, then the       *)
(* presentation handlers, then mix_executor_outputs.  A step with           *)
(* frame = TRUE is a whole update in which one handler ran; a step with     *)
(* frame = FALSE stops after the handler, before the mix.                   *)

\* The cue ids in use
AllCueIds(execs) ==
  UNION {{execs[x].cue_list[p].id : p \in 1..Len(execs[x].cue_list)} : x \in 1..Len(execs)}

\* What check_agent() of the open_dmx interface can return: Ok(()) or an
\* error, here by its text
PollOutcomes == {PollOk, "agent stopped", "port lost"}

\* The connection status as the status line shows it
Serial == [connected |-> dmx_connected, error |-> dmx_serial_error]

\* A poll whose failure leaves the status as it was
check_agent_silent(serial, r) ==
  IF r = PollOk THEN [serial EXCEPT !.connected = TRUE] ELSE serial

\* match dmx.check_agent() { Ok(()) => ..., Err(e) => ... }, dmx_output.rs 81-87
check_agent(serial, r) ==
  IF r = PollOk THEN [serial EXCEPT !.connected = TRUE]
  ELSE [connected |-> FALSE, error |-> r]

\* A tick that hands every frame to the interface
set_channels_always(open, recorded, frame) ==
  IF open THEN frame ELSE NotSent

\* if dmx_chans.to_vec() != state.channels { ...; if let Some(dmx) =
\* &mut state.dmx_serial { dmx.set_channels(dmx_chans) } }, dmx_output.rs
\* 72-78: the frame set_channels() is called with, NotSent when it is not
set_channels(open, recorded, frame) ==
  IF open /\ frame # recorded THEN frame ELSE NotSent

\* The state a handler leaves, mixed when the step is a whole frame and the
\* handler did not panic; the tick ends with the health poll when the port
\* is open
Commit(c, frame) ==
  \E d \in {IF frame /\ ~c.panicked THEN mix_executor_outputs(c) ELSE c} :
     /\ command_error' = d.command_error
     /\ command_history' = d.command_history
     /\ channels' = d.channels
     /\ buffer' = d.buffer
     /\ executors' = d.executors
     /\ fixtures' = d.fixtures
     /\ master_dimmer' = d.master_dimmer
     /\ master_volume' = d.master_volume
     /\ now' = d.now
     /\ panicked' = d.panicked
     /\ UNCHANGED audio_vars
     /\ UNCHANGED <<dmx_serial, selected_tab>>
     /\ transmitted' = IF frame /\ ~d.panicked
                       THEN set_channels(dmx_serial, c.channels, d.channels)
                       ELSE NotSent
     /\ IF frame /\ ~d.panicked /\ dmx_serial
        THEN \E r \in PollOutcomes :
              \E t \in {check_agent(Serial, r)} :
                /\ dmx_connected' = t.connected
                /\ dmx_serial_error' = t.error
                /\ polled' = r
        ELSE /\ UNCHANGED <<dmx_connected, dmx_serial_error>>
             /\ polled' = NoPoll

\* The operator types `line` and sends it: show_console_input (ui.rs 536-543)
Submit(line, frame) ==
  /\ ~panicked
  /\ Len(line) > 0
  /\ Len(command_history) < MaxHistory
  /\ \E c \in {execute_console_command(Console, line)} :
        /\ \A id \in AllCueIds(c.executors) : id <= MaxCueId
        /\ Commit(c, frame)

ClearButton(frame) ==
  /\ ~panicked
  /\ Len(command_history) < MaxHistory
  /\ Commit(ClearPressed(Console), frame)

StoreCue(x, frame) ==
  /\ ~panicked
  /\ Len(executors[x].cue_list) < MaxCues
  /\ Commit(StorePressed(Console, x), frame)

GoButton(x, frame) ==
  /\ ~panicked
  /\ Commit(GoPressed(Console, x), frame)

GoBackButton(x, frame) ==
  /\ ~panicked
  /\ Commit(BackPressed(Console, x), frame)

SetFader(x, level, frame) ==
  /\ ~panicked
  /\ Commit(FaderMoved(Console, x, level), frame)

SetMasterDimmer(level, frame) ==
  /\ ~panicked
  /\ Commit(MasterMoved(Console, level), frame)

DeleteAll(x, frame) ==
  /\ ~panicked
  /\ Commit(DeleteAllPressed(Console, x), frame)

AddFixture(start_ch, template_id, mode_index, frame) ==
  /\ ~panicked
  /\ Commit(AddFixturePressed(Console, start_ch, template_id, mode_index), frame)

HandleOsc(msg, frame) ==
  /\ ~panicked
  /\ Commit(handle_osc(Console, msg), frame)

\* An update in which no handler ran: the mix alone
Tick ==
  /\ ~panicked
  /\ Commit(Console, TRUE)

\* The wall clock moves on
AdvanceClock ==
  /\ ~panicked
  /\ now < MaxTime
  /\ Commit([Console EXCEPT !.now = now + 1], FALSE)

----------------------------------------------------------------------------
(* The mixing pipeline under commands, remote messages and fader moves:     *)
(* every step is a whole frame.                                             *)

ChanLine(ch, v) == <<Word("chan"), Num(ch), Word("at"), Num(v)>>

MixLines ==
  { ChanLine(1, 200), ChanLine(0, 10), <<Word("BO")>>, <<Word("chan"), Num(1)>> }

MixExecs == {1}

FaderInputs == {500}

DimmerInputs == {500}

MixOsc ==
  { OscMessage("MasterDMX", 0, <<OscArg("Int", 50)>>),
    OscMessage("MasterDMX", 0, <<OscArg("Float", 2000)>>),
    OscMessage("Dimmer", 1, <<OscArg("Float", 1000)>>),
    OscMessage("Go", 1, << >>),
    OscMessage("GoBack", 1, << >>) }

NextMix ==
  /\ \/ \E line \in MixLines : Submit(line, TRUE)
     \/ \E x \in MixExecs : StoreCue(x, TRUE)
     \/ \E x \in MixExecs : GoButton(x, TRUE)
     \/ \E x \in MixExecs : GoBackButton(x, TRUE)
     \/ \E x \in MixExecs, level \in FaderInputs : SetFader(x, level, TRUE)
     \/ \E level \in DimmerInputs : SetMasterDimmer(level, TRUE)
     \/ \E msg \in MixOsc : HandleOsc(msg, TRUE)
     \/ Tick
  /\ UNCHANGED last_op

SpecMix == Init /\ [][NextMix]_vars

----------------------------------------------------------------------------
(* Properties of the mixing pipeline.  Under SpecMix every step ends with   *)
(* mix_executor_outputs, so every state shows the frame of a tick.          *)

\* The last executor that writes the frame, 0 when none does
LastWriter ==
  IF \E x \in 1..Len(executors) : ExecWrites(executors[x])
  THEN CHOOSE x \in 1..Len(executors) :
         /\ ExecWrites(executors[x])
         /\ \A y \in (x + 1)..Len(executors) : ~ExecWrites(executors[y])
  ELSE 0

\* Channel i (1-based) is written from the buffer
Overridden(i) ==
  \E p \in 1..Len(buffer) : SatSub1(buffer[p].chan) + 1 = i

\* The level of channel i in the current cue of executor x
CueLevel(x, i) == executors[x].cue_list[executors[x].current_cue_index + 1].levels[i]

\* The exact product level * output level * master dimmer, in 10^-6
ExactScaled(x, i) ==
  CueLevel(x, i) * executors[x].current_output_level * master_dimmer

\* C1: after every mixing tick the frame has exactly 512 entries, each an
\* integer in 0..255, and a channel an executor drives carries the exact
\* product of cue level, output level and master dimmer truncated to an
\* integer: the conversion to u8 neither wraps nor saturates, and the value
\* is never below 0.
C1_FrameInRange ==
  /\ Len(channels) = DMX_CHANNELS
  /\ \A i \in 1..DMX_CHANNELS : channels[i] \in 0..U8Max
  /\ \A i \in 1..DMX_CHANNELS :
       (LastWriter > 0 /\ ~Overridden(i)) =>
          /\ ExactScaled(LastWriter, i) >= 0
          /\ channels[i] * Milli * Milli <= ExactScaled(LastWriter, i)
          /\ ExactScaled(LastWriter, i) < (channels[i] + 1) * Milli * Milli

\* C1 witness: an executor at half level drives a channel to a value that
\* is above 0 and below the level of its cue
C1_Witness ==
  /\ LastWriter > 0
  /\ \E i \in 1..DMX_CHANNELS :
       /\ ~Overridden(i)
       /\ channels[i] > 0
       /\ channels[i] < CueLevel(LastWriter, i)

\* C2: for every buffer entry (ch, v) with 1 <= ch <= 512 the frame of the
\* tick carries v at channel ch, whatever the executors do.
C2_BufferAlwaysWins ==
  \A p \in 1..Len(buffer) :
     (buffer[p].chan >= 1 /\ buffer[p].chan <= DMX_CHANNELS) =>
        channels[buffer[p].chan] = buffer[p].dmx

\* The frame after executor mixing and buffer overrides, before the master
\* dimmer: the mix at master dimmer 1.0
PreScale == MixFrame(executors, buffer, Milli)

\* C3: the emitted value of every channel is trunc(p * master_dimmer), p
\* being the value after executor mixing and buffer overrides, the channels
\* written from the buffer included.
C3_MasterDimmerLast ==
  \A i \in 1..DMX_CHANNELS : channels[i] = AsU8(PreScale[i] * master_dimmer, Milli)

----------------------------------------------------------------------------
(* The command interpreter on its own: command lines and fixture patching,  *)
(* each step one handler.                                                   *)

FixLine(id, v) == <<Word("fix"), Num(id), Word("at"), Num(v)>>

ColorLine(id, r, g, b, w) ==
  <<Word("Fix"), Num(id), Word("Color"), Tag("R", r), Tag("G", g), Tag("B", b), Tag("W", w)>>

\* Lines that match none of the command shapes: an unknown word, missing
\* arguments, a level above 255, a negative level, a colour without its tags
BadLines ==
  { <<Word("hello")>>,
    <<Word("chan"), Num(5), Word("at")>>,
    ChanLine(5, 256),
    FixLine(1, -1),
    <<Word("fix"), Num(1), Word("color"), Num(10)>>,
    <<Word("clear"), Word("all")>> }

GoodLines ==
  { ChanLine(5, 200),
    <<Word("Chan"), Num(5), Word("AT"), Num(10)>>,
    FixLine(1, 200),
    FixLine(7, 10),
    ColorLine(1, 10, 0, 0, 30),
    <<Word("CLR")>> }

CmdLines == GoodLines \cup BadLines

\* (start channel, template id, mode index) of the fixtures patched
FixtureInputs == { <<1, 3, 0>>, <<5, 1, 0>> }

NextCmd ==
  \/ \E line \in CmdLines : Submit(line, FALSE) /\ last_op' = Op("command", 0, line)
  \/ \E f \in FixtureInputs :
        AddFixture(f[1], f[2], f[3], FALSE) /\ last_op' = Op("add_fixture", 0, << >>)

SpecCmd == Init /\ [][NextCmd]_vars

\* The buffer holds the entry (ch, v)
HasEntry(buf, ch, v) == \E p \in 1..Len(buf) : buf[p].chan = ch /\ buf[p].dmx = v

\* No two entries of the buffer have the same channel number
UniqueChannels(buf) ==
  \A p, q \in 1..Len(buf) : p # q => buf[p].chan # buf[q].chan

\* The channel numbers of the channels of fixture f that have the given type
ChannelsOf(f, type) ==
  {FixtureAsBuffer(f)[p].chan : p \in {q \in 1..Len(FixtureAsBuffer(f)) :
                                          FixtureAsBuffer(f)[q].type = type}}

\* The values a command can give to a channel
ValuesOf(cmd) ==
  IF cmd.op = "SetFixtureColor" THEN {cmd.r, cmd.g, cmd.b, cmd.w} ELSE {cmd.value}

\* What a successfully applied command leaves in the buffer
C4_Step ==
  LET cmd == Parse(last_op'.line)
      fp == FindFixture(fixtures, cmd.fixture_id)
  IN (last_op'.name = "command" /\ cmd.op # "None") =>
       /\ UniqueChannels(buffer')
       /\ cmd.op = "Clear" => buffer' = << >>
       /\ cmd.op = "DimChannel" => HasEntry(buffer', cmd.ch, cmd.value)
       /\ (cmd.op = "DimFixture" /\ fp > 0) =>
             \A ch \in ChannelsOf(fixtures[fp], "Intensity") :
                HasEntry(buffer', ch, cmd.value)
       /\ (cmd.op = "SetFixtureColor" /\ fp > 0) =>
             /\ \A ch \in ChannelsOf(fixtures[fp], "Red") : HasEntry(buffer', ch, cmd.r)
             /\ \A ch \in ChannelsOf(fixtures[fp], "Green") : HasEntry(buffer', ch, cmd.g)
             /\ \A ch \in ChannelsOf(fixtures[fp], "Blue") : HasEntry(buffer', ch, cmd.b)
             /\ \A ch \in ChannelsOf(fixtures[fp], "White") : HasEntry(buffer', ch, cmd.w)
       /\ cmd.op # "Clear" =>
             \A p \in 1..Len(buffer) :
                \/ HasEntry(buffer', buffer[p].chan, buffer[p].dmx)
                \/ \E v \in ValuesOf(cmd) : HasEntry(buffer', buffer[p].chan, v)
       /\ \A p \in 1..Len(buffer') :
             \/ HasEntry(buffer, buffer'[p].chan, buffer'[p].dmx)
             \/ buffer'[p].dmx \in ValuesOf(cmd)

\* C4: after any sequence of chan, fix, fix color and clear commands the
\* buffer holds at most one entry per channel number, and each command leaves
\* its value in the one entry of every channel it sets while the entries of
\* the other channels keep the value of the command that set them last.
C4_BufferLatest == [][C4_Step]_vars

\* C4 witness: `chan 5 at 200` then `chan 5 at 10` has left exactly one
\* buffer entry, (5, 10)
C4_Witness ==
  /\ Len(command_history) = 2
  /\ command_history[1].op = "DimChannel" /\ command_history[1].ch = 5
  /\ command_history[1].value = 200
  /\ command_history[2].op = "DimChannel" /\ command_history[2].ch = 5
  /\ command_history[2].value = 10
  /\ buffer = <<[chan |-> 5, dmx |-> 10]>>

\* What a line that matches no command shape leaves
C10_Step ==
  (last_op'.name = "command" /\ last_op'.line \in BadLines) =>
     /\ ~panicked'
     /\ command_error' # ErrNone
     /\ UNCHANGED <<buffer, master_dimmer, fixtures, executors, command_history>>

\* C10: a line that matches none of the command shapes (unknown words,
\* missing arguments, a level outside 0..255) does not fail, records an error
\* message and leaves buffer, master dimmer, fixtures, executors and command
\* history unchanged.
C10_ParseErrorHarmless == [][C10_Step]_vars

\* C10 witness: `chan 5 at 256` was sent with a non-empty buffer and left the
\* error message
C10_Witness ==
  /\ last_op.name = "command"
  /\ last_op.line = ChanLine(5, 256)
  /\ command_error.kind = "Unknown command"
  /\ Len(buffer) > 0

----------------------------------------------------------------------------
(* Cue lists: storing, moving, nudging and deleting cues on two executors,  *)
(* each step one handler.                                                   *)

MoveLine(a, k, b, j) ==
  <<Word("move"), Word("exec"), Num(a), Word("cue"), Num(k),
    Word("to"), Word("exec"), Num(b), Word("cue"), Num(j)>>

NudgeLine(a, k, d) == <<Word("move"), Word("exec"), Num(a), Word("cue"), Num(k), Word(d)>>

CueLines ==
  { ChanLine(1, 200),
    MoveLine(1, 1, 2, 1),
    MoveLine(1, 1, 2, 3),
    MoveLine(2, 1, 1, 2),
    MoveLine(1, 1, 1, 2),
    NudgeLine(1, 1, "up"),
    NudgeLine(2, 1, "down") }

CueExecs == {1, 2}

\* The number of cues stored on the console
RECURSIVE CueCount(_, _)
CueCount(execs, x) ==
  IF x > Len(execs) THEN 0 ELSE Len(execs[x].cue_list) + CueCount(execs, x + 1)

NextCue ==
  \/ \E line \in CueLines : Submit(line, FALSE) /\ last_op' = Op("command", 0, line)
  \/ \E x \in CueExecs :
        /\ CueCount(executors, 1) < MaxCues
        /\ StoreCue(x, FALSE)
        /\ last_op' = Op("store", x, << >>)
  \/ \E x \in CueExecs : DeleteAll(x, FALSE) /\ last_op' = Op("delete_all", x, << >>)

SpecCue == Init /\ [][NextCue]_vars

\* C5: in every reachable state no two cues of one executor's cue list have
\* the same id.
C5_UniqueCueIds ==
  \A x \in 1..Len(executors) :
     \A p, q \in 1..Len(executors[x].cue_list) :
        p # q => executors[x].cue_list[p].id # executors[x].cue_list[q].id

\* The command of the step is a move of a cue that exists from one executor
\* to a different one
CrossMove(cmd) ==
  /\ last_op'.name = "command"
  /\ cmd.op = "MoveExecCueToExecCue"
  /\ cmd.exec_from \in 1..NumExecutors /\ cmd.exec_to \in 1..NumExecutors
  /\ cmd.exec_from # cmd.exec_to
  /\ FindCue(executors[cmd.exec_from].cue_list, cmd.cue_from) > 0

\* The cue list holds a cue with these levels under this id
HoldsCue(cues, id, levels) ==
  \E p \in 1..Len(cues) : cues[p].id = id /\ cues[p].levels = levels

C6_Step ==
  LET cmd == Parse(last_op'.line)
      A == executors[cmd.exec_from].cue_list
      B == executors[cmd.exec_to].cue_list
      pf == FindCue(A, cmd.cue_from)
      q == FindCue(B, cmd.cue_from)
  IN (CrossMove(cmd) /\ q > 0) =>
       /\ ~panicked'
       /\ HoldsCue(executors'[cmd.exec_to].cue_list, cmd.cue_from, A[pf].levels)
       /\ HoldsCue(executors'[cmd.exec_to].cue_list, cmd.cue_from + 1, B[q].levels)

\* C6: when cue k moves from executor A to a different executor B that
\* already holds a cue with id k, the moved cue is in B's list afterwards with
\* id k and B's original id-k cue has its id raised by exactly 1.
C6_CollidingIdsRaised == [][C6_Step]_vars

C7_Step ==
  LET cmd == Parse(last_op'.line)
      A == executors[cmd.exec_from].cue_list
      B == executors[cmd.exec_to].cue_list
      pf == FindCue(A, cmd.cue_from)
  IN (CrossMove(cmd) /\ FindCue(B, cmd.cue_to) = 0) =>
       /\ ~panicked'
       /\ Len(executors'[cmd.exec_from].cue_list) = Len(A) - 1
       /\ Len(executors'[cmd.exec_to].cue_list) = Len(B) + 1
       /\ HoldsCue(executors'[cmd.exec_to].cue_list, cmd.cue_from, A[pf].levels)

\* C7: a move whose destination cue id is not in the destination executor
\* never fails: the cue leaves the source list and joins the destination
\* list, for every destination id and every length of the destination list.
C7_MoveNeverFails == [][C7_Step]_vars

----------------------------------------------------------------------------
(* One executor's playback: cues are stored from the buffer, the GO and     *)
(* BACK buttons step through them, the mix runs the fades and the clock     *)
(* moves on.                                                                *)

ExecLines == { ChanLine(1, 200) }

ExecUnderTest == {1}

ExecFaderInputs == {500}

NextExec ==
  \/ \E line \in ExecLines : Submit(line, FALSE) /\ last_op' = Op("other", 0, << >>)
  \/ \E x \in ExecUnderTest : StoreCue(x, FALSE) /\ last_op' = Op("other", 0, << >>)
  \/ \E x \in ExecUnderTest : GoButton(x, FALSE) /\ last_op' = Op("go", x, << >>)
  \/ \E x \in ExecUnderTest : GoBackButton(x, FALSE) /\ last_op' = Op("go_back", x, << >>)
  \/ \E x \in ExecUnderTest, level \in ExecFaderInputs :
        SetFader(x, level, FALSE) /\ last_op' = Op("other", 0, << >>)
  \/ \E x \in ExecUnderTest : DeleteAll(x, FALSE) /\ last_op' = Op("other", 0, << >>)
  \/ Tick /\ last_op' = Op("other", 0, << >>)
  \/ AdvanceClock /\ last_op' = Op("other", 0, << >>)

SpecExec == Init /\ [][NextExec]_vars

\* The step is go() or go_back() on executor x
Stepped(x) == last_op'.name \in {"go", "go_back"} /\ last_op'.exec = x

C8_Step ==
  \A x \in 1..Len(executors) :
     (Stepped(x) /\ Len(executors[x].cue_list) = 0) =>
        /\ ~panicked'
        /\ executors'[x] = executors[x]

\* C8: go() and go_back() on an executor whose cue list is empty change no
\* field of the executor and do not fail.
C8_EmptyListNoOp == [][C8_Step]_vars

\* C8 witness: go_back() ran on an executor whose list was emptied after
\* playback, with the clock past the recorded fade start and no fade running
C8_Witness ==
  /\ last_op.name = "go_back"
  /\ Len(executors[last_op.exec].cue_list) = 0
  /\ ~executors[last_op.exec].is_fading
  /\ executors[last_op.exec].fader_level > 0
  /\ executors[last_op.exec].fade_start_time # now
  /\ ~panicked

\* The index before i, wrapping at 0
PrevIndex(i, n) == IF i = 0 THEN n - 1 ELSE i - 1

C9_Step ==
  \A x \in 1..Len(executors) :
     LET ex == executors[x]
         n == Len(ex.cue_list)
         i == ex.current_cue_index
         j == IF last_op'.name = "go" THEN (i + 1) % n ELSE PrevIndex(i, n)
     IN (Stepped(x) /\ n >= 1 /\ i < n) =>
          /\ ~panicked'
          /\ executors'[x].current_cue_index = j
          /\ executors'[x].stored_channels = ex.cue_list[j + 1].levels
          /\ executors'[x].is_fading
          /\ executors'[x].fade_start_time = now

\* C9: on an executor with n >= 1 cues and current index i < n, go() moves
\* the index to (i+1) mod n and go_back() to (i-1) mod n; both copy the levels
\* of the new current cue into the cached channels, set the fade-in-progress
\* flag and record the fade start time.
C9_GoWraps == [][C9_Step]_vars

\* C9 witness: go_back() wrapped from the first of three cues to the last,
\* whose levels differ from the first cue's, at clock 1
C9_Witness ==
  /\ last_op.name = "go_back"
  /\ Len(executors[last_op.exec].cue_list) = 3
  /\ executors[last_op.exec].current_cue_index = 2
  /\ executors[last_op.exec].cue_list[1].levels # executors[last_op.exec].cue_list[3].levels
  /\ executors[last_op.exec].stored_channels = executors[last_op.exec].cue_list[3].levels
  /\ executors[last_op.exec].is_fading
  /\ executors[last_op.exec].fade_start_time = 1
  /\ now = 1

----------------------------------------------------------------------------
(* Commands that address fixtures and executors, some of which do not      *)
(* exist, each step one handler.                                            *)

AddrLines ==
  { ChanLine(1, 200),
    FixLine(1, 200),
    FixLine(7, 10),
    ColorLine(7, 10, 0, 0, 30),
    NudgeLine(1, 1, "up"),
    NudgeLine(11, 1, "up"),
    NudgeLine(0, 1, "down"),
    MoveLine(1, 1, 11, 1),
    MoveLine(11, 1, 1, 1),
    MoveLine(1, 1, 2, 1) }

AddrExecs == {1, 2}

AddrFixtures == { <<1, 3, 0>> }

NextAddr ==
  \/ \E line \in AddrLines : Submit(line, FALSE) /\ last_op' = Op("command", 0, line)
  \/ \E x \in AddrExecs :
        /\ CueCount(executors, 1) < MaxCues
        /\ StoreCue(x, FALSE)
        /\ last_op' = Op("store", x, << >>)
  \/ \E f \in AddrFixtures :
        AddFixture(f[1], f[2], f[3], FALSE) /\ last_op' = Op("add_fixture", 0, << >>)

SpecAddr == Init /\ [][NextAddr]_vars

\* The command names a fixture id that no fixture has, or an executor number
\* outside 1..NumExecutors in a move or nudge
AddressingError(cmd) ==
  \/ /\ cmd.op \in {"DimFixture", "SetFixtureColor"}
     /\ FindFixture(fixtures, cmd.fixture_id) = 0
  \/ /\ cmd.op \in {"MoveExecCueToExecCue", "MoveExecCueDirection"}
     /\ cmd.exec_from \notin 1..NumExecutors
  \/ /\ cmd.op = "MoveExecCueToExecCue"
     /\ cmd.exec_to \notin 1..NumExecutors

C11_Step ==
  (last_op'.name = "command" /\ AddressingError(Parse(last_op'.line))) =>
     /\ ~panicked'
     /\ command_error' # ErrNone
     /\ UNCHANGED <<buffer, fixtures, executors, master_dimmer, command_history>>

\* C11: a command that names a fixture id that does not exist, or an executor
\* number outside 1..NumExecutors in a move or nudge, never aborts: it leaves
\* a message and leaves buffer, fixtures, cue lists, master dimmer and command
\* history unchanged.
C11_AddressingErrorHarmless == [][C11_Step]_vars

----------------------------------------------------------------------------
(* AudioEngine (audio.rs).  Volumes are f32 in milli.  An ActivePlayback    *)
(* is modelled together with its rodio Player (the output handle) and the   *)
(* thread play() spawns for its fade-in.                                    *)

\* f32 product of two volumes
VolMul(a, b) == (a * b) \div Milli

\* AudioTrack::new(id, name, file_path), of the fields the engine reads
NewTrack(id) == [id |-> id, fade_in |-> 0, volume |-> Milli, action |-> "None"]

\* rodio::Player::connect_new(mixer): no source queued, volume 1.0, not paused
NewPlayer == [volume |-> Milli, empty |-> TRUE, paused |-> FALSE]

\* The engine as one value, as its methods receive it (&self), with the
\* history variables, which are cleared at the start of every handler
Engine ==
  [active_players |-> active_players, ended_tracks |-> ended_tracks,
   started |-> << >>, returned |-> << >>]

\* stop that halts the players of the track and keeps their entries
stop_keeps_entry(e, track_id) ==
  [e EXCEPT !.active_players =
     [i \in 1..Len(e.active_players) |->
        IF e.active_players[i].track_id = track_id
        THEN [e.active_players[i] EXCEPT !.player.empty = TRUE]
        ELSE e.active_players[i]]]

\* AudioEngine::stop, lines 113-123: retain every entry of another track
stop(e, track_id) ==
  [e EXCEPT !.active_players = SelectSeq(@, LAMBDA p : p.track_id # track_id)]

\* AudioEngine::stop_all, lines 125-130
stop_all(e) == [e EXCEPT !.active_players = << >>]

\* Lines 67-106: the playback play() pushes.  With fade_in > 0 the player is
\* set to volume 0 (lines 71-73, 86) and a thread is spawned for the ramp
\* with vol = track.volume * master_volume (line 85); with fade_in = 0 the
\* player's volume is not written.
NewPlayback(track, master_vol) ==
  [track_id |-> track.id,
   player |-> [NewPlayer EXCEPT !.empty = FALSE,
                                !.volume = IF track.fade_in > 0 THEN 0 ELSE NewPlayer.volume],
   volume |-> track.volume,
   master_volume |-> master_vol,
   action |-> track.action,
   ramp |-> IF track.fade_in > 0 THEN "spawned" ELSE "none",
   ramp_target |-> IF track.fade_in > 0 THEN VolMul(track.volume, master_vol) ELSE 0]

\* play without the stop of line 52
play_without_stop(e, track, master_vol, ok) ==
  LET e1 == [e EXCEPT !.started = Append(@, track.id)]
  IN IF ~ok THEN e1
     ELSE [e1 EXCEPT !.active_players = Append(@, NewPlayback(track, master_vol))]

\* AudioEngine::play, lines 51-111.  ok: the file opens and decodes and the
\* output device opens (lines 54-61); otherwise play returns Err after stop.
play(e, track, master_vol, ok) ==
  LET e1 == [stop(e, track.id) EXCEPT !.started = Append(@, track.id)]
  IN IF ~ok THEN e1
     ELSE [e1 EXCEPT !.active_players = Append(@, NewPlayback(track, master_vol))]

\* The closure of retain in update, lines 136-147: TRUE when p is kept
UpdateKeeps(p) == p.player.paused \/ ~p.player.empty

\* UpdateEntry that re-applies the track volume alone
UpdateEntryNoMaster(p) ==
  IF p.player.paused THEN p ELSE [p EXCEPT !.player.volume = p.volume]

\* Line 145: p.player.set_volume(p.volume * p.master_volume) on a kept entry
\* that is not paused
UpdateEntry(p) ==
  IF p.player.paused THEN p
  ELSE [p EXCEPT !.player.volume = VolMul(p.volume, p.master_volume)]

\* The (track id, action) pairs of the entries update removes, in table order
RECURSIVE EndedOf(_, _)
EndedOf(players, i) ==
  IF i > Len(players) THEN << >>
  ELSE IF UpdateKeeps(players[i]) THEN EndedOf(players, i + 1)
  ELSE <<[track_id |-> players[i].track_id, action |-> players[i].action]>>
         \o EndedOf(players, i + 1)

\* The entries update keeps, each with its volume re-applied
RECURSIVE KeptOf(_, _)
KeptOf(players, i) ==
  IF i > Len(players) THEN << >>
  ELSE IF UpdateKeeps(players[i])
       THEN <<UpdateEntry(players[i])>> \o KeptOf(players, i + 1)
       ELSE KeptOf(players, i + 1)

\* AudioEngine::update, lines 132-155
update(e) ==
  [e EXCEPT !.active_players = KeptOf(@, 1),
            !.ended_tracks = @ \o EndedOf(e.active_players, 1)]

\* AudioEngine::set_master_volume, lines 157-163
set_master_volume(e, volume) ==
  [e EXCEPT !.active_players =
     [i \in 1..Len(e.active_players) |->
        [e.active_players[i] EXCEPT
           !.master_volume = volume,
           !.player.volume = VolMul(e.active_players[i].volume, volume)]]]

\* get_ended_tracks that returns a copy of the queue
get_ended_tracks_copy(e) == [e EXCEPT !.returned = e.ended_tracks]

\* AudioEngine::get_ended_tracks, lines 173-177: drain(..).collect()
get_ended_tracks(e) == [e EXCEPT !.returned = e.ended_tracks, !.ended_tracks = << >>]

\* AudioEngine::is_playing, lines 179-184
is_playing(players, track_id) ==
  \E i \in 1..Len(players) :
     /\ players[i].track_id = track_id
     /\ ~players[i].player.empty
     /\ ~players[i].player.paused

\* The thread of line 87.  thread::spawn is handed an async closure: the
\* thread calls it, which only builds a future, and ends; nothing polls the
\* future, so the loop of lines 88-95 does not run and the player's volume
\* is not written.
ramp_thread(e, i) == [e EXCEPT !.active_players[i].ramp = "finished"]

\* The audio thread plays the queued source to its end: player.empty()
source_ends(e, i) == [e EXCEPT !.active_players[i].player.empty = TRUE]

----------------------------------------------------------------------------
(* The engine's methods as steps, called as the show layer calls them: with *)
(* state.master_volume.                                                     *)

\* The state an engine method leaves
CommitEngine(e) ==
  /\ active_players' = e.active_players
  /\ ended_tracks' = e.ended_tracks
  /\ started' = e.started
  /\ returned' = e.returned
  /\ UNCHANGED <<audio_tracks, audio_index>>
  /\ UNCHANGED console_vars
  /\ UNCHANGED <<serial_vars, selected_tab>>

EnginePlay(track, ok) ==
  /\ ~panicked
  /\ CommitEngine(play(Engine, track, master_volume, ok))

EngineStop(track_id) ==
  /\ ~panicked
  /\ CommitEngine(stop(Engine, track_id))

EngineStopAll ==
  /\ ~panicked
  /\ CommitEngine(stop_all(Engine))

EngineUpdate ==
  /\ ~panicked
  /\ Len(ended_tracks) + Len(EndedOf(active_players, 1)) <= MaxEnded
  /\ CommitEngine(update(Engine))

EngineSetMasterVolume ==
  /\ ~panicked
  /\ CommitEngine(set_master_volume(Engine, master_volume))

EngineGetEnded ==
  /\ ~panicked
  /\ CommitEngine(get_ended_tracks(Engine))

\* The spawned thread of playback i runs
RampThread(i) ==
  /\ ~panicked
  /\ i \in 1..Len(active_players)
  /\ active_players[i].ramp = "spawned"
  /\ CommitEngine(ramp_thread(Engine, i))

\* The source of playback i runs out
SourceEnds(i) ==
  /\ ~panicked
  /\ i \in 1..Len(active_players)
  /\ ~active_players[i].player.empty
  /\ CommitEngine(source_ends(Engine, i))

\* Master volume slider, ui.rs 1587-1590
MasterVolumeMoved(level) ==
  /\ ~panicked
  /\ master_volume' = level
  /\ started' = << >>
  /\ returned' = << >>
  /\ UNCHANGED <<command_error, command_history, channels, buffer, executors,
                 fixtures, master_dimmer, now, panicked>>
  /\ UNCHANGED <<audio_tracks, audio_index, active_players, ended_tracks>>
  /\ UNCHANGED <<serial_vars, selected_tab>>

\* The tracks handed to play()
EngineTracks ==
  { [id |-> 1, fade_in |-> 0, volume |-> 500, action |-> "Follow"],
    [id |-> 2, fade_in |-> 400, volume |-> Milli, action |-> "None"] }

EngineTrackIds == {1, 2}

VolumeInputs == {500, Milli}

PlayerSlots == 1..2

\* The table holds an entry of the track
HasPlayback(players, track_id) ==
  \E i \in 1..Len(players) : players[i].track_id = track_id

NextEngine ==
  \/ \E track \in EngineTracks, ok \in BOOLEAN :
        /\ EnginePlay(track, ok)
        /\ last_op' = Op(IF ~ok THEN "play_err"
                         ELSE IF HasPlayback(active_players, track.id) THEN "replay"
                         ELSE "play", track.id, << >>)
  \/ \E id \in EngineTrackIds : EngineStop(id) /\ last_op' = Op("stop", id, << >>)
  \/ EngineStopAll /\ last_op' = Op("stop_all", 0, << >>)
  \/ EngineUpdate /\ last_op' = Op("update", 0, << >>)
  \/ EngineSetMasterVolume /\ last_op' = Op("other", 0, << >>)
  \/ EngineGetEnded /\ last_op' = Op("get_ended_tracks", 0, << >>)
  \/ \E i \in PlayerSlots : RampThread(i) /\ last_op' = Op("other", 0, << >>)
  \/ \E i \in PlayerSlots : SourceEnds(i) /\ last_op' = Op("other", 0, << >>)
  \/ \E level \in VolumeInputs : MasterVolumeMoved(level) /\ last_op' = Op("other", 0, << >>)

SpecEngine == Init /\ [][NextEngine]_vars

----------------------------------------------------------------------------
(* Properties of the engine *)

\* The entries of the other tracks, in table order
Others(players, track_id) == SelectSeq(players, LAMBDA p : p.track_id # track_id)

C12_Step ==
  /\ last_op'.name = "stop" =>
        /\ ~HasPlayback(active_players', last_op'.exec)
        /\ ~is_playing(active_players', last_op'.exec)
        /\ Others(active_players', last_op'.exec) = Others(active_players, last_op'.exec)
  /\ last_op'.name = "stop_all" =>
        \A id \in EngineTrackIds : ~is_playing(active_players', id)

\* C12: right after stop(id) the active table has no entry for id and
\* is_playing(id) is false, whether or not the source was exhausted or a ramp
\* thread is still pending, and the entries of other tracks are untouched;
\* after stop_all() is_playing is false for every track id.
C12_StopIsImmediate == [][C12_Step]_vars

\* C12 witness: stop(2) has left only the playback of track 1, which is
\* still sounding
C12_Witness ==
  /\ last_op.name = "stop" /\ last_op.exec = 2
  /\ Len(active_players) = 1
  /\ active_players[1].track_id = 1
  /\ is_playing(active_players, 1)

\* The entry is one update removes: not paused and its source exhausted
Exhausted(p) == p.player.empty /\ ~p.player.paused

C14_Step ==
  last_op'.name = "update" =>
     LET gone == SelectSeq(active_players, Exhausted)
         kept == SelectSeq(active_players, LAMBDA p : ~Exhausted(p))
     IN /\ ended_tracks' =
             ended_tracks \o [k \in 1..Len(gone) |->
                                [track_id |-> gone[k].track_id, action |-> gone[k].action]]
        /\ Len(active_players') = Len(kept)
        /\ \A k \in 1..Len(kept) :
              IF kept[k].player.paused
              THEN active_players'[k] = kept[k]
              ELSE /\ active_players'[k].player.volume =
                        (kept[k].volume * kept[k].master_volume) \div Milli
                   /\ [active_players'[k] EXCEPT !.player.volume = 0] =
                        [kept[k] EXCEPT !.player.volume = 0]

\* C14: update() removes exactly the entries that are not paused and whose
\* source is exhausted and appends (track id, action) of each to the ended
\* queue; paused entries are kept untouched and every other entry is kept
\* with its volume set to track volume * master volume.
C14_UpdateMovesEnded == [][C14_Step]_vars

\* C14 witness: an update has queued an end event and kept a sounding entry
\* at 0.5 * 0.5
C14_Witness ==
  /\ last_op.name = "update"
  /\ Len(ended_tracks) >= 1
  /\ Len(active_players) = 1
  /\ active_players[1].volume = 500
  /\ active_players[1].master_volume = 500
  /\ active_players[1].player.volume = 250

\* The track of EngineTracks with this id
TrackOf(id) == CHOOSE t \in EngineTracks : t.id = id

\* A playback has just been pushed by play()
Played == last_op'.name \in {"play", "replay"}

Newest(players) == players[Len(players)]

C15_Step ==
  (Played /\ TrackOf(last_op'.exec).fade_in = 0) =>
     /\ Newest(active_players').ramp = "none"
     /\ Newest(active_players').player.volume =
          VolMul(TrackOf(last_op'.exec).volume, master_volume)

\* C15: play() of a track with fade_in = 0 leaves the new playback at
\* track volume * master volume when it returns, with no ramp thread.
C15_NoFadeStartsAtTarget == [][C15_Step]_vars

\* The ramp thread of entry i ends in this step
RampEnds(i) ==
  /\ i <= Len(active_players) /\ i <= Len(active_players')
  /\ active_players[i].ramp = "spawned"
  /\ active_players'[i].ramp = "finished"

C16_Step ==
  /\ (Played /\ TrackOf(last_op'.exec).fade_in > 0) =>
        /\ Newest(active_players').player.volume = 0
        /\ Newest(active_players').ramp = "spawned"
  /\ \A i \in PlayerSlots :
        RampEnds(i) => active_players'[i].player.volume = active_players[i].ramp_target

\* C16: play() of a track with fade_in > 0 returns with the playback at
\* volume 0 and a ramp running; the ramp of a playback that is not stopped
\* ends having written track volume * master volume to the player.
C16_RampReachesTarget == [][C16_Step]_vars

\* C17: once the ramp of a playback has finished, the player's volume is
\* track volume * master volume, whichever of the ramp, update() and
\* set_master_volume() wrote last.
C17_RampAndUpdateAgree ==
  \A i \in 1..Len(active_players) :
     active_players[i].ramp = "finished" =>
        active_players[i].player.volume =
           VolMul(active_players[i].volume, active_players[i].master_volume)

\* C18: the active table holds at most one entry per track id.
C18_OneEntryPerTrack ==
  \A i, j \in 1..Len(active_players) :
     i # j => active_players[i].track_id # active_players[j].track_id

\* C18 witness: play() of a track that was already in the table, with the
\* other track playing too
C18_Witness ==
  /\ last_op.name = "replay"
  /\ Len(active_players) = 2
  /\ Newest(active_players).track_id = last_op.exec

C19_Step ==
  last_op'.name = "get_ended_tracks" =>
     /\ returned' = ended_tracks
     /\ ended_tracks' = << >>
     /\ last_op.name = "get_ended_tracks" => returned' = << >>

\* C19: get_ended_tracks() returns the queued end events in queue order and
\* leaves the queue empty, so a second call with no update() in between
\* returns nothing and no event is returned twice.
C19_EndedDrained == [][C19_Step]_vars

\* C19 witness: one call has returned two end events of different tracks
C19_Witness ==
  /\ last_op.name = "get_ended_tracks"
  /\ Len(returned) = 2
  /\ returned[1].track_id # returned[2].track_id
  /\ ended_tracks = << >>

----------------------------------------------------------------------------
(* The show layer of the audio tab (ui.rs, show_audio_tab and audio_go).    *)
(* Its handlers work on the track list, the GO index and the engine.        *)

\* The audio part of ConsoleState as one value
Audio == [tracks |-> audio_tracks, index |-> audio_index, engine |-> Engine]

\* iter().position(|t| t.id == track_id); 0 is None
RECURSIVE FirstTrackFrom(_, _, _)
FirstTrackFrom(tracks, track_id, i) ==
  IF i > Len(tracks) THEN 0
  ELSE IF tracks[i].id = track_id THEN i
  ELSE FirstTrackFrom(tracks, track_id, i + 1)

\* follow_ended that starts the next track whatever the action of the event
RECURSIVE follow_ended_any_action(_, _, _, _, _)
follow_ended_any_action(a, events, k, master_vol, ok) ==
  IF k > Len(events) THEN a
  ELSE
    LET pos == FirstTrackFrom(a.tracks, events[k].track_id, 1)
        next_idx == pos % Len(a.tracks)
    IN IF pos = 0
       THEN follow_ended_any_action(a, events, k + 1, master_vol, ok)
       ELSE follow_ended_any_action(
              [a EXCEPT !.engine = play(@, a.tracks[next_idx + 1], master_vol, ok),
                        !.index = next_idx],
              events, k + 1, master_vol, ok)

\* Lines 1565-1575: for every end event with action Follow whose track is in
\* the list, play the next track (wrapping) and move the GO index to it.
\* pos is 1-based, next_idx 0-based.
RECURSIVE follow_ended(_, _, _, _, _)
follow_ended(a, events, k, master_vol, ok) ==
  IF k > Len(events) THEN a
  ELSE
    LET pos == FirstTrackFrom(a.tracks, events[k].track_id, 1)
        next_idx == pos % Len(a.tracks)
    IN IF events[k].action # "Follow" \/ pos = 0
       THEN follow_ended(a, events, k + 1, master_vol, ok)
       ELSE follow_ended(
              [a EXCEPT !.engine = play(@, a.tracks[next_idx + 1], master_vol, ok),
                        !.index = next_idx],
              events, k + 1, master_vol, ok)

\* show_audio_tab, lines 1559-1576: set_master_volume, update,
\* get_ended_tracks, then the follow-ups
audio_tick(a, master_vol, ok) ==
  LET e == get_ended_tracks(update(set_master_volume(a.engine, master_vol)))
  IN follow_ended([a EXCEPT !.engine = e], e.returned, 1, master_vol, ok)

\* audio_go, lines 1915-1932, with increment_audio_index
audio_go(a, master_vol, ok) ==
  LET track_count == Len(a.tracks)
      idx == a.index
  IN IF track_count = 0 THEN a
     ELSE
       LET e1 == IF idx < track_count
                 THEN play(a.engine, a.tracks[idx + 1], master_vol, ok)
                 ELSE a.engine
           e2 == IF idx < track_count /\ a.tracks[idx + 1].action = "Continue"
                    /\ idx + 1 < track_count
                 THEN play(e1, a.tracks[idx + 2], master_vol, ok)
                 ELSE e1
       IN [a EXCEPT !.engine = e2, !.index = (idx + 1) % track_count]

\* "Add Track" with a picked file, lines 1700-1716
add_track(a) == [a EXCEPT !.tracks = Append(@, NewTrack(Len(a.tracks) + 1))]

\* The remove button of the track at position i, lines 1788-1793, 1903-1908
remove_track(a, i) ==
  [a EXCEPT !.engine = stop(@, a.tracks[i].id),
            !.tracks = SelectSeq(@, LAMBDA t : t.id # a.tracks[i].id)]

\* The action combo box of the track at position i, lines 1805-1823
set_track_action(a, i, action) == [a EXCEPT !.tracks[i].action = action]

\* The play / stop button of the track at position i, lines 1753-1765
play_or_stop(a, i, master_vol, ok) ==
  IF is_playing(a.engine.active_players, a.tracks[i].id)
  THEN [a EXCEPT !.engine = stop(@, a.tracks[i].id)]
  ELSE [a EXCEPT !.engine = play(@, a.tracks[i], master_vol, ok)]

\* The audio state a show-layer handler leaves
AudioLeft(a) ==
  /\ audio_tracks' = a.tracks
  /\ audio_index' = a.index
  /\ active_players' = a.engine.active_players
  /\ ended_tracks' = a.engine.ended_tracks
  /\ started' = a.engine.started
  /\ returned' = a.engine.returned

\* The tabs of the tab bar, enum Tab (ui.rs 10-16)
Tabs == {"DmxConsole", "Audio", "MidiOsc", "Show"}

\* A handler of the Audio tab: the other state stays
CommitAudio(a) ==
  /\ AudioLeft(a)
  /\ UNCHANGED console_vars
  /\ UNCHANGED <<serial_vars, selected_tab>>

AudioTick(ok) ==
  /\ ~panicked
  /\ selected_tab = "Audio"
  /\ CommitAudio(audio_tick(Audio, master_volume, ok))

\* AppState::update (main.rs 30-71) on a console with no remote message, no
\* cue and no buffer entry: the operator's click in the tab bar, if any,
\* selects `tab`, then the function of the selected tab runs, and of the four
\* only show_audio_tab calls the audio engine; the mix that ends the frame
\* finds nothing to write.
UpdateFrame(tab, ok) ==
  /\ ~panicked
  /\ selected_tab' = tab
  /\ AudioLeft(IF tab = "Audio" THEN audio_tick(Audio, master_volume, ok) ELSE Audio)
  /\ UNCHANGED console_vars
  /\ UNCHANGED serial_vars

AudioGo(ok) ==
  /\ ~panicked
  /\ selected_tab = "Audio"
  /\ CommitAudio(audio_go(Audio, master_volume, ok))

AddTrack ==
  /\ ~panicked
  /\ selected_tab = "Audio"
  /\ Len(audio_tracks) < MaxTracks
  /\ CommitAudio(add_track(Audio))

RemoveTrack(i) ==
  /\ ~panicked
  /\ selected_tab = "Audio"
  /\ i \in 1..Len(audio_tracks)
  /\ CommitAudio(remove_track(Audio, i))

SetTrackAction(i, action) ==
  /\ ~panicked
  /\ selected_tab = "Audio"
  /\ i \in 1..Len(audio_tracks)
  /\ CommitAudio(set_track_action(Audio, i, action))

PlayOrStop(i, ok) ==
  /\ ~panicked
  /\ selected_tab = "Audio"
  /\ i \in 1..Len(audio_tracks)
  /\ CommitAudio(play_or_stop(Audio, i, master_volume, ok))

StopAllButton ==
  /\ ~panicked
  /\ selected_tab = "Audio"
  /\ CommitAudio([Audio EXCEPT !.engine = stop_all(@)])

TrackSlots == 1..MaxTracks

ActionInputs == {"Follow"}

NextShow ==
  \/ \E ok \in BOOLEAN : UpdateFrame("Audio", ok) /\ last_op' = Op("tick", 0, << >>)
  \/ \E ok \in BOOLEAN : AudioTick(ok) /\ last_op' = Op("tick", 0, << >>)
  \/ \E ok \in BOOLEAN : AudioGo(ok) /\ last_op' = Op("other", 0, << >>)
  \/ AddTrack /\ last_op' = Op("other", 0, << >>)
  \/ \E i \in TrackSlots : RemoveTrack(i) /\ last_op' = Op("other", 0, << >>)
  \/ \E i \in TrackSlots, action \in ActionInputs :
        SetTrackAction(i, action) /\ last_op' = Op("other", 0, << >>)
  \/ \E i \in TrackSlots, ok \in BOOLEAN :
        PlayOrStop(i, ok) /\ last_op' = Op("other", 0, << >>)
  \/ StopAllButton /\ last_op' = Op("other", 0, << >>)
  \/ \E i \in PlayerSlots : SourceEnds(i) /\ last_op' = Op("other", 0, << >>)

SpecShow == Init /\ [][NextShow]_vars

\* The id of the track after the first track with this id, wrapping
NextTrackId(tracks, track_id) ==
  tracks[(FirstTrackFrom(tracks, track_id, 1) % Len(tracks)) + 1].id

C13_Step ==
  last_op'.name = "tick" =>
     LET gone == SelectSeq(active_players, Exhausted)
         follow == SelectSeq(gone, LAMBDA p : p.action = "Follow")
     IN /\ returned' = [k \in 1..Len(gone) |->
                          [track_id |-> gone[k].track_id, action |-> gone[k].action]]
        /\ started' = [k \in 1..Len(follow) |->
                         NextTrackId(audio_tracks, follow[k].track_id)]
        /\ ended_tracks' = << >>
        /\ \A i \in 1..Len(active_players') : ~Exhausted(active_players'[i])

\* C13: when a playback whose action is Follow has exhausted its source, the
\* tick's get_ended_tracks() returns its track id and the show layer calls
\* play for the next track of the list exactly once for that event; the event
\* and the exhausted entry are gone afterwards, so no later tick repeats it.
C13_FollowOnce == [][C13_Step]_vars

\* C13 witness: a tick has returned the end of track 1, a Follow playback,
\* and started track 2, which is now sounding
C13_Witness ==
  /\ last_op.name = "tick"
  /\ returned = <<[track_id |-> 1, action |-> "Follow"]>>
  /\ started = <<2>>
  /\ is_playing(active_players, 2)

----------------------------------------------------------------------------
(* Remote control: OSC messages arrive between the operator's store,       *)
(* delete and fader gestures, each step one handler.                        *)

DimmerMessage(n, args) == OscMessage("Dimmer", n, args)

OscInputs ==
  { DimmerMessage(1, <<OscArg("Float", 500)>>),
    DimmerMessage(2, <<OscArg("Float", 500)>>),
    DimmerMessage(2, <<OscArg("Float", 0), OscArg("Float", 1000)>>),
    DimmerMessage(2, <<OscArg("Float", 2000)>>),
    DimmerMessage(2, <<OscArg("Int", 1)>>),
    DimmerMessage(2, << >>),
    OscMessage("Go", 1, << >>),
    OscMessage("GoBack", 2, << >>),
    OscMessage("MasterDMX", 0, <<OscArg("Float", 500)>>),
    OscMessage("MasterVolume", 0, <<OscArg("Float", 500)>>) }

OscExecs == {1}

NextOsc ==
  \/ \E msg \in OscInputs :
        /\ HandleOsc(msg, FALSE)
        /\ last_op' = IF msg.kind = "Dimmer" THEN Op("Dimmer", msg.exec, << >>)
                      ELSE Op("other", 0, << >>)
  \/ \E x \in OscExecs :
        /\ CueCount(executors, 1) < MaxCues
        /\ StoreCue(x, FALSE)
        /\ last_op' = Op("other", 0, << >>)
  \/ \E x \in OscExecs : DeleteAll(x, FALSE) /\ last_op' = Op("other", 0, << >>)
  \/ \E x \in OscExecs, level \in FaderInputs :
        SetFader(x, level, FALSE) /\ last_op' = Op("other", 0, << >>)

SpecOsc == Init /\ [][NextOsc]_vars

C20_Step ==
  \A x \in 1..Len(executors) :
     (last_op'.name = "Dimmer" /\ last_op'.exec = x /\ Len(executors[x].cue_list) = 0) =>
        /\ executors'[x].fader_level = executors[x].fader_level
        /\ UNCHANGED console_vars
        /\ UNCHANGED <<audio_tracks, audio_index, active_players, ended_tracks>>

\* C20: an executor-dimmer OSC message addressed to an executor whose cue
\* list is empty leaves that executor's fader level and all other console
\* state unchanged, for every argument value.
C20_DimmerIgnoredWithoutCues == [][C20_Step]_vars

\* C20 witness: a dimmer message reached executor 2, which has no cues and
\* rests at 0, while the same message has moved executor 1, which has cues
C20_Witness ==
  /\ last_op.name = "Dimmer" /\ last_op.exec = 2
  /\ Len(executors[2].cue_list) = 0
  /\ executors[2].fader_level = 0
  /\ Len(executors[1].cue_list) > 0
  /\ executors[1].fader_level = 500

----------------------------------------------------------------------------
(* Remote control of the masters and faders: OSC messages of every          *)
(* argument type arrive between the operator's slider moves, each step one  *)
(* handler.  The history variable keeps the message of the step.            *)

RemoteArgs ==
  { <<OscArg("Float", 500)>>, <<OscArg("Float", 1500)>>, <<OscArg("Float", 1600)>>,
    <<OscArg("Float", 0 - 100)>>,
    <<OscArg("Double", 50 * Milli)>>, <<OscArg("Double", 200 * Milli)>>,
    <<OscArg("Int", 50)>>, <<OscArg("Int", 75)>>, <<OscArg("Int", 100)>>,
    <<OscArg("Int", 150)>>, <<OscArg("Int", 200)>>, <<OscArg("Int", 0 - 1)>>,
    <<OscArg("Long", 2000)>>, <<OscArg("String", 1)>>,
    <<OscArg("String", 1), OscArg("Float", 1600)>>,
    << >> }

RemoteInputs ==
  { OscMessage(kind, 0, args) : kind \in {"MasterVolume", "MasterDMX"}, args \in RemoteArgs }
    \cup { OscMessage("Dimmer", 1, args) : args \in RemoteArgs }

NextRemote ==
  \/ \E msg \in RemoteInputs :
        HandleOsc(msg, FALSE) /\ last_op' = Op(msg.kind, msg.exec, msg.args)
  \/ \E x \in OscExecs :
        /\ CueCount(executors, 1) < 1
        /\ StoreCue(x, FALSE)
        /\ last_op' = Op("other", 0, << >>)
  \/ \E x \in OscExecs, level \in FaderInputs :
        SetFader(x, level, FALSE) /\ last_op' = Op("other", 0, << >>)
  \/ \E level \in DimmerInputs :
        SetMasterDimmer(level, FALSE) /\ last_op' = Op("other", 0, << >>)

SpecRemote == Init /\ [][NextRemote]_vars

\* What each binding accepts: the argument types and their ranges
Accepts(kind, a) ==
  CASE kind = "MasterVolume" ->
         \/ a.t = "Float" /\ a.v >= 0 /\ 2 * a.v <= 3 * Milli
         \/ a.t = "Double" /\ a.v >= 0 /\ a.v <= 150 * Milli
         \/ a.t = "Int" /\ a.v \in 0..150
         \/ a.t = "Long" /\ a.v \in 0..1500
    [] kind = "MasterDMX" ->
         \/ a.t = "Float" /\ a.v \in 0..Milli
         \/ a.t = "Double" /\ a.v >= 0 /\ a.v <= 100 * Milli
         \/ a.t = "Int" /\ a.v \in 0..100
         \/ a.t = "Long" /\ a.v \in 0..1000
    [] kind = "Dimmer" -> a.t = "Float" /\ a.v \in 0..Milli
    [] OTHER -> FALSE

\* The step handled a message none of whose arguments its binding accepts
Refused ==
  /\ last_op'.name \in {"MasterVolume", "MasterDMX", "Dimmer"}
  /\ Len(last_op'.line) > 0
  /\ \A p \in 1..Len(last_op'.line) : ~Accepts(last_op'.name, last_op'.line[p])

C21_Step == Refused => UNCHANGED <<console_vars, audio_vars>>

C21_Ranges ==
  /\ master_dimmer \in 0..Milli
  /\ 2 * master_volume \in 0..(3 * Milli)
  /\ \A x \in 1..Len(executors) : executors[x].fader_level \in 0..Milli

IntMessage(kind) ==
  /\ last_op'.name = kind
  /\ Len(last_op'.line) = 1
  /\ last_op'.line[1].t = "Int"

C22_Step ==
  /\ (IntMessage("MasterDMX") /\ last_op'.line[1].v \in 0..100) =>
        100 * master_dimmer' = last_op'.line[1].v * Milli
  /\ (IntMessage("MasterVolume") /\ last_op'.line[1].v \in 0..150) =>
        100 * master_volume' = last_op'.line[1].v * Milli

\* C22: an integer argument p with 0 <= p <= 100 on the master-dimmer
\* address sets master_dimmer to p/100 (50 gives 0.5), and an integer
\* argument p with 0 <= p <= 150 on the master-volume address sets
\* master_volume to p/100 (75 gives 0.75).
C22_IntegerIsPercentage == [][C22_Step]_vars

----------------------------------------------------------------------------
(* Two executors layered on one channel: cues are stored on both, their     *)
(* faders moved, cues moved between them; every step is a whole frame.      *)

LayerLines == { ChanLine(1, 200), <<Word("clear")>>, MoveLine(2, 1, 1, 2) }

LayerExecs == {1, 2}

LayerFaders == {500}

NextLayer ==
  /\ \/ \E line \in LayerLines : Submit(line, TRUE)
     \/ \E x \in LayerExecs :
           CueCount(executors, 1) < MaxCues /\ StoreCue(x, TRUE)
     \/ GoButton(2, TRUE)
     \/ \E x \in LayerExecs, level \in LayerFaders : SetFader(x, level, TRUE)
  /\ UNCHANGED last_op

SpecLayer == Init /\ [][NextLayer]_vars

\* Executor x has a current output level above 0 and a non-empty cue list
Layered(x) ==
  /\ executors[x].current_output_level > 0
  /\ Len(executors[x].cue_list) > 0

\* The last such executor in iteration order
LastLayered ==
  CHOOSE x \in 1..Len(executors) :
     Layered(x) /\ \A y \in (x + 1)..Len(executors) : ~Layered(y)

\* C23: when several executors have a current output level > 0 and a
\* non-empty cue list, each channel of the frame that no buffer entry
\* overrides carries the value written by the last such executor in
\* iteration order, its cue level scaled by its output level and the master
\* dimmer; the values of the executors are not added.
C23_LastExecutorWins ==
  (~panicked /\ Cardinality({x \in 1..Len(executors) : Layered(x)}) >= 2) =>
     /\ executors[LastLayered].current_cue_index < Len(executors[LastLayered].cue_list)
     /\ \A i \in 1..DMX_CHANNELS :
          ~Overridden(i) =>
             channels[i] = ScaleLevel(CueLevel(LastLayered, i),
                                      executors[LastLayered].current_output_level,
                                      master_dimmer)

----------------------------------------------------------------------------
(* The link to the interface: the console starts with the port opened or    *)
(* not, the operator types commands and moves the master, and every step    *)
(* is a whole frame whose last act is the health poll.                      *)

InitSerial == InitConsole /\ dmx_serial \in BOOLEAN

SerialLines == { ChanLine(1, 200), ChanLine(2, 100), <<Word("clear")>> }

NextSerial ==
  /\ \/ \E line \in SerialLines : Submit(line, TRUE)
     \/ \E level \in DimmerInputs : SetMasterDimmer(level, TRUE)
     \/ Tick
  /\ last_op' = Op("frame", 0, << >>)

SpecSerial == InitSerial /\ [][NextSerial]_vars

\* The poll of the step failed
PollFailed == polled' \notin {NoPoll, PollOk}

C24_Step ==
  /\ PollFailed =>
        /\ ~panicked'
        /\ channels' = MixFrame(executors', buffer', master_dimmer')
        /\ dmx_connected' = FALSE
        /\ dmx_serial_error' = polled'
  /\ (dmx_serial /\ last_op'.name = "frame") =>
        /\ dmx_serial'
        /\ polled' # NoPoll
  /\ polled' = PollOk => dmx_connected'

\* C24: a failed health poll never aborts the tick: the frame of the tick is
\* mixed, the status becomes disconnected and the error text is recorded;
\* the poll runs again on every later tick, and a tick whose poll succeeds
\* sets the status to connected.
C24_PollFailureRecorded == [][C24_Step]_vars

\* C24 witness: the link is connected again after a failed poll, the text of
\* the failure still on record
C24_Witness ==
  /\ dmx_serial
  /\ polled = PollOk
  /\ dmx_connected
  /\ dmx_serial_error = "port lost"
  /\ channels[1] = 200

----------------------------------------------------------------------------
(* The command history under the cue commands *)

\* The command of the step was parsed and took effect: no error was raised,
\* and a move or nudge found its cue and changed a cue list
Applied(cmd) ==
  /\ cmd.op # "None"
  /\ ~panicked'
  /\ command_error'.kind = NoError
  /\ cmd.op \in {"MoveExecCueToExecCue", "MoveExecCueDirection"} => executors' # executors

C25_Step ==
  /\ Len(command_history') >= Len(command_history)
  /\ SubSeq(command_history', 1, Len(command_history)) = command_history
  /\ last_op'.name = "command" =>
        /\ Applied(Parse(last_op'.line)) =>
              command_history' = Append(command_history, Parse(last_op'.line))
        /\ Parse(last_op'.line).op = "None" => command_history' = command_history

\* C25: every command that parses and is applied (blackout, clear, chan,
\* fix, fix color, cue move, nudge) appends exactly one entry to the command
\* history; entries are never removed or reordered, and an input that fails
\* to parse appends nothing.
C25_HistoryRecordsCommands == [][C25_Step]_vars

----------------------------------------------------------------------------
(* Nudging cues up and down a list of up to MaxNudgeCues cues on executor   *)
(* 1, beside a cue on executor 2; each step one handler.                    *)

NudgeLines ==
  { NudgeLine(1, k, d) : k \in 1..4, d \in {"up", "down"} }
    \cup { NudgeLine(2, 1, "up"), NudgeLine(1, 9, "down") }

NextNudge ==
  \/ \E line \in NudgeLines : Submit(line, FALSE) /\ last_op' = Op("command", 0, line)
  \/ /\ Len(executors[1].cue_list) < MaxNudgeCues
     /\ Commit(StorePressed(Console, 1), FALSE)
     /\ last_op' = Op("store", 1, << >>)
  \/ /\ Len(executors[2].cue_list) < 1
     /\ Commit(StorePressed(Console, 2), FALSE)
     /\ last_op' = Op("store", 2, << >>)

SpecNudge == Init /\ [][NextNudge]_vars

\* The ids of a cue list, in order
CueIds(cues) == [q \in 1..Len(cues) |-> cues[q].id]

\* cues with the cues at 0-based indices i and j exchanged
Exchanged(cues, i, j) ==
  [q \in 1..Len(cues) |->
     IF q = i + 1 THEN cues[j + 1] ELSE IF q = j + 1 THEN cues[i + 1] ELSE cues[q]]

C26_Step ==
  \A x \in 1..Len(executors) :
     LET cmd == Parse(last_op'.line)
         cues == executors[x].cue_list
         n == Len(cues)
         i == FindCue(cues, cmd.cue_from) - 1
     IN (/\ last_op'.name = "command"
         /\ cmd.op = "MoveExecCueDirection"
         /\ cmd.exec_from = x
         /\ i >= 0) =>
           /\ ~panicked'
           /\ executors'[x].cue_list =
                 Exchanged(cues, i, IF cmd.direction = "Up" THEN (i + 1) % n
                                    ELSE ((i - 1) + n) % n)
           /\ {cues[q] : q \in 1..n} =
                 {executors'[x].cue_list[q] : q \in 1..Len(executors'[x].cue_list)}
           /\ \A y \in 1..Len(executors) : y # x => executors'[y] = executors[y]

\* C26: `move exec E cue k up` on a cue at index i of an n-cue list
\* exchanges it with the cue at index (i+1) mod n, and `down` with the cue
\* at index (i-1) mod n; the cues of the list and their ids stay the same
\* and no other executor is touched.
C26_NudgeWraps == [][C26_Step]_vars

\* C26 witness: `up` on the last cue of the 4-cue list 1,2,3,4 exchanged
\* indices 3 and 0, beside the cue of executor 2
C26_Witness ==
  /\ last_op.line = NudgeLine(1, 4, "up")
  /\ CueIds(executors[1].cue_list) = <<4, 2, 3, 1>>
  /\ Len(executors[2].cue_list) = 1

----------------------------------------------------------------------------
(* The channel numbers of the override buffer.  Under SpecMix the buffer    *)
(* is written by `chan` commands only.                                      *)

\* C27: a `chan n at v` command whose channel is outside 1..512 is rejected
\* with an invalid-channel error and adds nothing to the buffer, so in every
\* reachable state every buffer entry created by a `chan` command has a
\* channel number in 1..512.
C27_BufferChannelsValid ==
  \A p \in 1..Len(buffer) : buffer[p].chan \in 1..DMX_CHANNELS

----------------------------------------------------------------------------
(* Blackout: the operator types the blackout command in its spellings,      *)
(* other commands, and moves the master slider; each step one handler.      *)

\* The spellings of the blackout command tried
BlackoutLines ==
  { <<Word("blackout")>>, <<Word("Blackout")>>, <<Word("B/O")>>, <<Word("bo")>>,
    <<Space, Word("BO"), Space>> }

OtherLines == { <<Word("bo"), Word("x")>>, ChanLine(1, 200), ChanLine(2, 100) }

MasterInputs == {250, 500, 750}

NextBlackout ==
  \/ \E line \in BlackoutLines \cup OtherLines :
        Submit(line, FALSE) /\ last_op' = Op("command", 0, line)
  \/ \E level \in MasterInputs :
        SetMasterDimmer(level, FALSE) /\ last_op' = Op("other", 0, << >>)

SpecBlackout == Init /\ [][NextBlackout]_vars

\* The command of the last step was a blackout command
WasBlackout(op) == op.name = "command" /\ op.line \in BlackoutLines

C28_Step ==
  /\ WasBlackout(last_op') =>
        /\ master_dimmer # 0 => master_dimmer' = 0
        /\ master_dimmer = 0 => master_dimmer' = Milli
        /\ master_dimmer' \in {0, Milli}
  /\ (WasBlackout(last_op) /\ master_dimmer = 0 /\ WasBlackout(last_op')) =>
        master_dimmer' = Milli

\* C28: the blackout command (`blackout`, `b/o` or `bo`, in any letter case
\* and with surrounding whitespace) sets master_dimmer to 0 when it is
\* non-zero and to 1 when it is 0; after it master_dimmer is 0 or 1, and the
\* second of two successive blackout commands from a non-zero master_dimmer
\* leaves it at 1.
C28_BlackoutToggles == [][C28_Step]_vars

\* C28 witness: two blackout commands, the second typed in capitals between
\* spaces, left the master at 1
C28_Witness ==
  /\ last_op.line = <<Space, Word("BO"), Space>>
  /\ master_dimmer = Milli
  /\ Len(command_history) = 2
  /\ \A p \in 1..2 : command_history[p].op = "Blackout"

----------------------------------------------------------------------------
(* The override buffer across a store *)

C29_Step == last_op'.name = "store" => buffer' = << >>

\* C29: storing the buffer into an executor (GO on the executor in Store
\* mode) leaves the override buffer empty, as the clear command does.
C29_StoreEmptiesBuffer == [][C29_Step]_vars

----------------------------------------------------------------------------
(* The main loop across the tabs: the operator builds a track list and      *)
(* starts tracks on the Audio tab, sources run out, and frames pass with    *)
(* any tab selected.                                                        *)

NextTabs ==
  \/ \E tab \in Tabs, ok \in BOOLEAN :
        UpdateFrame(tab, ok) /\ last_op' = Op("frame", 0, << >>)
  \/ AddTrack /\ last_op' = Op("other", 0, << >>)
  \/ \E i \in TrackSlots, action \in ActionInputs :
        SetTrackAction(i, action) /\ last_op' = Op("other", 0, << >>)
  \/ \E i \in TrackSlots, ok \in BOOLEAN :
        PlayOrStop(i, ok) /\ last_op' = Op("other", 0, << >>)
  \/ \E i \in PlayerSlots : SourceEnds(i) /\ last_op' = Op("other", 0, << >>)

SpecTabs == Init /\ [][NextTabs]_vars

\* The Follow playbacks whose source is exhausted
FollowDue == SelectSeq(active_players, LAMBDA p : Exhausted(p) /\ p.action = "Follow")

C30_Step ==
  last_op'.name = "frame" =>
     /\ \A i \in 1..Len(active_players') : ~Exhausted(active_players'[i])
     /\ ended_tracks' = << >>
     /\ \A k \in 1..Len(FollowDue) :
          \E j \in 1..Len(started') :
             started'[j] = NextTrackId(audio_tracks, FollowDue[k].track_id)

\* C30: on every tick of the main loop, whichever tab is selected, the audio
\* engine's update() and get_ended_tracks() run: no exhausted playback and
\* no end event is left after the tick, and the track after an exhausted
\* Follow track has been started in that tick.
C30_PolledOnEveryTab == [][C30_Step]_vars

----------------------------------------------------------------------------
\* C31: for every executor with a non-empty cue list, current_cue_index is
\* smaller than the length of the cue list in every reachable state, so
\* update_fade and the mixing tick never index past the end of the cue list
\* (the tick never panics).
C31_IndexInsideList ==
  /\ ~panicked
  /\ \A x \in 1..Len(executors) :
        Len(executors[x].cue_list) > 0 =>
           executors[x].current_cue_index < Len(executors[x].cue_list)

----------------------------------------------------------------------------
\* The cue levels that reproduce the buffer: v at index ch - 1 for every
\* entry (ch, v) with 1 <= ch <= 512, and 0 elsewhere
BufferAsLevels(buf) ==
  [i \in 1..DMX_CHANNELS |->
     IF \E p \in 1..Len(buf) : buf[p].chan = i
     THEN buf[CHOOSE p \in 1..Len(buf) : buf[p].chan = i].dmx
     ELSE 0]

\* C32: a cue stored from the buffer reproduces the buffer: for each buffer
\* entry (ch, v) with 1 <= ch <= 512 the new cue's level at index ch - 1 is
\* v and every other level is 0 (so that playing the cue alone at full level
\* yields the frame the buffer produced), and storing never fails.
C32_Step ==
  last_op'.name = "store" =>
     /\ ~panicked'
     /\ LET cues == executors'[last_op'.exec].cue_list
        IN /\ Len(cues) = Len(executors[last_op'.exec].cue_list) + 1
           /\ cues[Len(cues)].levels = BufferAsLevels(buffer)

C32_StoredCueReproducesBuffer == [][C32_Step]_vars

----------------------------------------------------------------------------
(* Executors in any state of their fade: update_fade and the mixing tick    *)
(* as functions of the executor they are handed.  The console starts with   *)
(* one cue on each of the first two executors, the second one's fade time,  *)
(* fader, previous fader, flag, target and output level drawn from the      *)
(* values the fields can hold (fade_time is a public f32 of Cue, in seconds *)
(* here); the operator moves the fader, presses GO and BACK, deletes the    *)
(* cues, and the clock advances between the ticks.                          *)

\* Fade times of the drawn cue: none, one second, two seconds
FadeTimes == {0, 1, 2}

\* A cue that drives channel 1 at `level` and fades in `fade_time` seconds
FadeCue(level, fade_time) ==
  [NewCue(1) EXCEPT !.fade_time = fade_time, !.levels = [Zeros EXCEPT ![1] = level]]

\* The first executor: without cues, or idle at full level on its one cue
EarlierExecutors ==
  { NewExecutor(0),
    [NewExecutor(0) EXCEPT !.cue_list = <<FadeCue(200, 0)>>,
                           !.fader_level = Milli,
                           !.last_fader_level = Milli,
                           !.current_output_level = Milli] }

\* The second executor: its list empty or one cue, in any state of its fade
DrawnExecutors ==
  { [NewExecutor(1) EXCEPT !.cue_list = cues,
                           !.fader_level = fader,
                           !.last_fader_level = last,
                           !.is_fading = fading,
                           !.target_level = target,
                           !.current_output_level = out] :
      cues \in {<< >>} \cup {<<FadeCue(100, ft)>> : ft \in FadeTimes},
      fader \in {0, 500},
      last \in {0, 500},
      fading \in BOOLEAN,
      target \in {0, Milli},
      out \in {0, 250} }

InitFade ==
  /\ command_error = [kind |-> NoError, id |-> 0, line |-> << >>]
  /\ command_history = << >>
  /\ channels = Zeros
  /\ buffer = << >>
  /\ \E first \in EarlierExecutors, second \in DrawnExecutors :
        executors = [i \in 1..NumExecutors |->
                       IF i = 1 THEN first
                       ELSE IF i = 2 THEN second
                       ELSE NewExecutor(i - 1)]
  /\ fixtures = << >>
  /\ master_dimmer = Milli
  /\ master_volume = Milli
  /\ now = 0
  /\ panicked = FALSE
  /\ last_op = [name |-> "init", exec |-> 0, line |-> << >>]
  /\ audio_tracks = << >>
  /\ audio_index = 0
  /\ active_players = << >>
  /\ ended_tracks = << >>
  /\ started = << >>
  /\ returned = << >>
  /\ dmx_serial = FALSE
  /\ dmx_connected = FALSE
  /\ dmx_serial_error = ""
  /\ polled = NoPoll
  /\ transmitted = NotSent
  /\ selected_tab = "DmxConsole"

FadeFaders == {0, 500, Milli}

\* The gestures go to the second executor
NextFade ==
  \/ Tick /\ last_op' = Op("tick", 0, << >>)
  \/ AdvanceClock /\ last_op' = Op("clock", 0, << >>)
  \/ \E level \in FadeFaders :
        SetFader(2, level, FALSE) /\ last_op' = Op("fader", 2, << >>)
  \/ GoButton(2, FALSE) /\ last_op' = Op("go", 2, << >>)
  \/ GoBackButton(2, FALSE) /\ last_op' = Op("go", 2, << >>)
  \/ DeleteAll(2, FALSE) /\ last_op' = Op("delete_all", 2, << >>)

SpecFade == InitFade /\ [][NextFade]_vars

\* The executors with executor x taken out of the mix: in its place one
\* that has no cues and a closed fader
Without(execs, x) ==
  [y \in 1..Len(execs) |-> IF y = x THEN NewExecutor(execs[y].id) ELSE execs[y]]

C33_Step ==
  (last_op'.name = "tick" /\ ~panicked') =>
     \A x \in 1..Len(executors') :
        (executors'[x].current_output_level = 0 \/ Len(executors'[x].cue_list) = 0) =>
           channels' = MixFrame(Without(executors', x), buffer', master_dimmer')

C35_Step ==
  (last_op'.name = "tick" /\ ~panicked') =>
     \A x \in 1..Len(executors') :
        ~executors'[x].is_fading =>
           executors'[x].current_output_level = executors'[x].fader_level

\* C35: whenever update_fade returns with the fade-in-progress flag false,
\* current_output_level equals fader_level exactly: for an executor that
\* stays idle, for a fade whose progress reached 1.0, and for a current cue
\* whose fade time is <= 0, which ends the fade on the first update_fade.
C35_IdleTracksFader == [][C35_Step]_vars

\* C35 witness: a tick one second after the fade of a one-second cue began
\* has cleared the flag and left the output level at the fader level, 0.5
C35_Witness ==
  /\ last_op.name = "tick"
  /\ ~panicked
  /\ Len(executors[2].cue_list) = 1
  /\ executors[2].cue_list[1].fade_time = 1
  /\ executors[2].fade_start_time = 0
  /\ now = 1
  /\ executors[2].target_level = 500
  /\ ~executors[2].is_fading
  /\ executors[2].current_output_level = 500

C36_Step ==
  (last_op'.name = "tick" /\ ~panicked') =>
     \A x \in 1..Len(executors') :
        Len(executors'[x].cue_list) = 0 =>
           /\ executors'[x].current_output_level = executors'[x].fader_level
           /\ ~executors'[x].is_fading

\* C36: for an executor with an empty cue list, after every update_fade the
\* current output level equals the raw fader level, whatever the flag, the
\* fade start time and the target level were, and no fade is in progress
\* for it (the fade-in-progress flag is false).
C36_EmptyListNeverFades == [][C36_Step]_vars

\* The fade time of the executor's current cue; 0 when it has no cue
CurrentFadeTime(ex) ==
  IF ex.current_cue_index < Len(ex.cue_list)
  THEN ex.cue_list[ex.current_cue_index + 1].fade_time
  ELSE 0

C37_Step ==
  (last_op'.name = "tick" /\ ~panicked') =>
     \A x \in 1..Len(executors) :
        LET ex == executors[x]
            after == executors'[x]
        IN /\ (ex.last_fader_level = 0 /\ ex.fader_level # 0 /\ ~ex.is_fading) =>
                /\ after.target_level = Milli
                /\ after.fade_start_time = now
                /\ after.is_fading <=>
                      (Len(ex.cue_list) = 0 \/ CurrentFadeTime(ex) > 0)
           /\ (ex.last_fader_level # 0 /\ ex.fader_level # 0) =>
                /\ after.target_level = ex.target_level
                /\ after.fade_start_time = ex.fade_start_time
                /\ after.is_fading => ex.is_fading

\* C37: when update_fade finds the fader at 0 on the previous tick and
\* non-zero now on an idle executor, the executor enters Fading with target
\* level 1.0 and the fade start time set to the current time, whatever the
\* fader value (a current cue with fade time <= 0 ends that fade within the
\* same call); a fader change between two non-zero values starts no fade and
\* does not restart a running one.
C37_FlashUp == [][C37_Step]_vars

\* C37 witness: the fader of an executor on a two-second cue went from 0 to
\* 0.5 and the tick at clock 1 began a fade toward 1.0: progress 0
C37_Witness ==
  /\ last_op.name = "tick"
  /\ ~panicked
  /\ Len(executors[2].cue_list) = 1
  /\ executors[2].cue_list[1].fade_time = 2
  /\ executors[2].fader_level = 500
  /\ executors[2].last_fader_level = 500
  /\ executors[2].target_level = Milli
  /\ executors[2].fade_start_time = 1
  /\ now = 1
  /\ executors[2].is_fading
  /\ executors[2].current_output_level = 0

----------------------------------------------------------------------------
(* A console left alone: from any state of the executors the main loop      *)
(* runs a mixing tick in every frame and the clock advances between the     *)
(* frames, with no gesture of the operator.  The clock of the model stops   *)
(* at MaxTime, so the drawn fades are those that can end by then; the       *)
(* first executor has no cues.                                              *)

InitSettle ==
  /\ InitFade
  /\ executors[1] = NewExecutor(0)
  /\ \A x \in 1..Len(executors) :
       \A p \in 1..Len(executors[x].cue_list) :
          executors[x].cue_list[p].fade_time <= MaxTime

\* The tick of a frame
SettleTick ==
  /\ last_op.name # "tick"
  /\ Tick
  /\ last_op' = Op("tick", 0, << >>)

\* The time between two frames
SettleClock ==
  /\ last_op.name = "tick"
  /\ AdvanceClock
  /\ last_op' = Op("clock", 0, << >>)

NextSettle == SettleTick \/ SettleClock

\* eframe calls update() for every frame and the system clock runs
SpecSettle ==
  InitSettle /\ [][NextSettle]_vars /\ WF_vars(SettleTick) /\ WF_vars(SettleClock)

----------------------------------------------------------------------------
(* Moving cues: cues are stored on two executors, from an empty buffer and  *)
(* from one with a channel set, and moved within and between the lists;     *)
(* each step one handler.                                                   *)

MoveLines ==
  { ChanLine(1, 200),
    MoveLine(1, 1, 2, 1),
    MoveLine(2, 1, 1, 3),
    MoveLine(1, 1, 1, 2),
    NudgeLine(1, 1, "up") }

NextMove ==
  \/ \E line \in MoveLines : Submit(line, FALSE) /\ last_op' = Op("command", 0, line)
  \/ \E x \in CueExecs :
        /\ CueCount(executors, 1) < MaxCues
        /\ StoreCue(x, FALSE)
        /\ last_op' = Op("store", x, << >>)

SpecMove == Init /\ [][NextMove]_vars

----------------------------------------------------------------------------
(* The cues of the console across a move.  A cue has no identity besides    *)
(* its contents; its id may be renumbered, so a cue is followed by its      *)
(* levels.                                                                  *)

\* The places (executor, position) that hold a cue
CuePlaces(execs) ==
  UNION {{<<x, p>> : p \in 1..Len(execs[x].cue_list)} : x \in 1..Len(execs)}

\* The number of cues on the console with these levels
Copies(execs, levels) ==
  Cardinality({xp \in CuePlaces(execs) : execs[xp[1]].cue_list[xp[2]].levels = levels})

\* The command is a cue move: to a cue of an executor, or a nudge
IsMove(cmd) == cmd.op \in {"MoveExecCueToExecCue", "MoveExecCueDirection"}

C38_Step ==
  LET cmd == Parse(last_op'.line)
  IN (last_op'.name = "command" /\ IsMove(cmd)) =>
        /\ ~panicked'
        /\ Cardinality(CuePlaces(executors')) = Cardinality(CuePlaces(executors))
        /\ \A xp \in CuePlaces(executors) :
              LET levels == executors[xp[1]].cue_list[xp[2]].levels
              IN Copies(executors', levels) = Copies(executors, levels)
        /\ (CrossMove(cmd) /\ cmd.op = "MoveExecCueToExecCue") =>
              LET A == executors[cmd.exec_from].cue_list
                  B == executors[cmd.exec_to].cue_list
                  moved == A[FindCue(A, cmd.cue_from)]
              IN /\ HoldsCue(executors'[cmd.exec_to].cue_list, moved.id, moved.levels)
                 /\ Len(executors'[cmd.exec_from].cue_list)
                       + Len(executors'[cmd.exec_to].cue_list) = Len(A) + Len(B)

\* C38: a cue move command (same-executor move, cross-executor move with
\* the destination cue found or not found, or nudge) never creates or
\* destroys a cue: the command returns, the total number of cues over all
\* executors is the same before and after, every cue is there as often as
\* before, and the moved cue is in the destination list and in no second
\* list.
C38_MovePreservesCues == [][C38_Step]_vars

----------------------------------------------------------------------------
(* The frame and the interface.  Under SpecSerial every step is a whole     *)
(* frame, so `channels` is the frame the previous tick recorded.            *)

C39_Step ==
  (last_op'.name = "frame" /\ ~panicked') =>
     /\ channels' = MixFrame(executors', buffer', master_dimmer')
     /\ dmx_serial =>
          /\ (transmitted' # NotSent) <=> (channels' # channels)
          /\ transmitted' # NotSent => transmitted' = channels'
     /\ ~dmx_serial => transmitted' = NotSent

\* C39: after every mixing tick the recorded frame equals the frame computed
\* in that tick, and, when a transport is open, its set-channels operation
\* is invoked in a tick (with that frame) if and only if the computed frame
\* differs from the frame recorded by the previous tick, never on a tick
\* where nothing changed.
C39_SentOnChangeOnly == [][C39_Step]_vars

\* C39 witness: with the port open, a tick whose frame has channel 1 at 200,
\* as the tick before it had, did not call set_channels
C39_Witness ==
  /\ dmx_serial
  /\ ~panicked
  /\ last_op.name = "frame"
  /\ channels[1] = 200
  /\ transmitted = NotSent

----------------------------------------------------------------------------
(* Stopped and replaced playbacks and the ended queue (SpecEngine) *)

\* The track ids update() would queue as ended if it ran on this table
WouldEnd(players) ==
  {EndedOf(players, 1)[k].track_id : k \in 1..Len(EndedOf(players, 1))}

\* The track ids whose playbacks the step removed by stop(), stop_all() or
\* the stop inside play()
RemovedIds ==
  IF last_op'.name = "stop_all" THEN EngineTrackIds
  ELSE IF last_op'.name \in {"stop", "play", "replay", "play_err"} THEN {last_op'.exec}
  ELSE {}

C40_Step ==
  /\ RemovedIds # {} =>
        /\ ended_tracks' = ended_tracks
        /\ WouldEnd(active_players') \cap RemovedIds = {}
        /\ \A id \in RemovedIds :
              \A i \in 1..Len(active_players') :
                 active_players'[i].track_id = id =>
                    /\ last_op'.name \in {"play", "replay"}
                    /\ i = Len(active_players')
                    /\ ~active_players'[i].player.empty
  /\ last_op'.name # "update" => Len(ended_tracks') <= Len(ended_tracks)
  /\ last_op'.name = "update" =>
        /\ Len(ended_tracks') >= Len(ended_tracks)
        /\ \A k \in (Len(ended_tracks) + 1)..Len(ended_tracks') :
              \E i \in 1..Len(active_players) :
                 /\ active_players[i].track_id = ended_tracks'[k].track_id
                 /\ active_players[i].player.empty
                 /\ ~active_players[i].player.paused

\* C40: a playback removed by stop(), by stop_all(), or by being replaced
\* inside play() of the same track id is never added to the ended queue:
\* the removing call leaves the queue as it is and the playback out of the
\* table, and the queue grows only in update(), by entries that are in the
\* table then and whose source ran out.
C40_StoppedNeverEnds == [][C40_Step]_vars

\* C40 witness: play() replaced the one playback of the Follow track with a
\* fresh one, and the ended queue is empty
C40_Witness ==
  /\ last_op.name = "replay"
  /\ last_op.exec = 1
  /\ ended_tracks = << >>
  /\ Len(active_players) = 1
  /\ active_players[1].track_id = 1
  /\ ~active_players[1].player.empty

====
